---- MODULE Spec2Model ----
(***************************************************************************)
(* Model of AudioAnalyzer.create_rhythm_map (src/analysis/audio_analyzer.py)*)
(*                                                                         *)
(* Numbers.  The code works in floating point; the model is exact:         *)
(*   - a time of t seconds is the integer t * 10 * sr, so a sample index s *)
(*     (s / sr seconds) is 10 * s and the literals 0.2, 0.5 and 1.0 are     *)
(*     2 * sr, 5 * sr and 10 * sr;                                         *)
(*   - an RMS amplitude a is the integer a * RmsScale;                     *)
(*   - a quotient is a record [num, den]; the quotient 0 / 0, which numpy  *)
(*     evaluates to nan, is the record with num = 0 and den = 0.           *)
(* The decoded waveform is represented by its frame-wise RMS envelope (one *)
(* value per hop of 512 samples, as librosa.feature.rms returns it) and by *)
(* its length in samples.                                                  *)
(***************************************************************************)
EXTENDS Integers, Sequences, FiniteSets, TLC

\* ---------------------------------------------------------------- bounds
MaxRuns == 5        \* constant-level stretches in an input envelope
MaxBeats == 5       \* beats the beat tracker may report
RmsScale == 100     \* amplitude resolution: 1.0 is RmsScale

\* ------------------------------------------------------ program constants
SampleRate == 22050 \* sr of librosa.load(str(audio_path))
HopLength == 512    \* hop_length of every framed analysis
FrameLength == 2048  \* frame_length of the RMS analysis, in samples

NoMap == "none"

\* ------------------------------------------------------------- sequences
\* sum of s[lo..hi], halving the range
RECURSIVE SumRange(_, _, _)
SumRange(s, lo, hi) ==
    IF lo > hi THEN 0
    ELSE IF lo = hi THEN s[lo]
    ELSE LET mid == (lo + hi) \div 2
         IN  SumRange(s, lo, mid) + SumRange(s, mid + 1, hi)

SumSeq(s) == SumRange(s, 1, Len(s))

SumSqSeq(s) == SumSeq([i \in 1..Len(s) |-> s[i] * s[i]])

MaxSeq(s) ==
    CHOOSE m \in {s[i] : i \in 1..Len(s)} : \A i \in 1..Len(s) : s[i] <= m

MinNat(a, b) == IF a < b THEN a ELSE b

RECURSIVE Concat(_)
Concat(ss) == IF ss = <<>> THEN <<>> ELSE Head(ss) \o Concat(Tail(ss))

\* k-th smallest element (k in 1..Len(s)), i.e. sorted(s)[k-1]
OrderStat(s, k) ==
    CHOOSE v \in {s[i] : i \in 1..Len(s)} :
        /\ Cardinality({i \in 1..Len(s) : s[i] <= v}) >= k
        /\ Cardinality({i \in 1..Len(s) : s[i] < v}) < k

\* ------------------------------------------------------------ input space
\* An envelope alternates quiet and loud stretches of constant level.  The
\* stretch lengths (in frames) sit on both sides of the 0.2 s, 0.5 s and
\* 1.0 s thresholds at 22050 Hz (8.6, 21.5 and 43.1 frames); the levels put
\* the quiet stretches below both silence thresholds (0 under 100, 0 under
\* 8) or between them (8 under 100: -21.9 dB).
RunKinds ==
    {[len |-> l, loud |-> FALSE] : l \in {8, 9, 22, 44}}
    \cup {[len |-> l, loud |-> TRUE] : l \in {21}}

LevelPairs == {<<0, 8>>, <<0, 100>>, <<8, 100>>}

RECURSIVE RunSeqs(_)
RunSeqs(n) ==
    IF n = 0 THEN {<<>>}
    ELSE LET S == RunSeqs(n - 1)
         IN  S \cup {Append(s, r) : s \in {t \in S : Len(t) = n - 1},
                                    r \in RunKinds}

Canonical(runs) ==
    /\ runs # <<>>
    /\ \A i \in 1..(Len(runs) - 1) : runs[i].loud # runs[i + 1].loud

Envelopes ==
    {Concat([i \in 1..Len(runs) |->
                [j \in 1..runs[i].len |->
                    IF runs[i].loud THEN lv[2] ELSE lv[1]]]) :
        runs \in {r \in RunSeqs(MaxRuns) : Canonical(r)}, lv \in LevelPairs}

\* len(y) for an envelope of n frames: n = 1 + len(y) // 512
TailSamples == {0, 256}

\* frame envelopes of buffers shorter than one analysis frame (2048
\* samples): the framed analyses pad the signal at both ends, so such a
\* buffer still has 1 + len(y) // 512 frames, between one and four
ShortEnvelopes ==
    {[i \in 1..n |-> v] : n \in 1..4, v \in {0, 8}} \cup {<<71, 100, 100, 71>>}

\* ten seconds (220500 samples, 431 frames) of silence with a tone from
\* 4 s to 6 s: the frames 171..260, whose windows hold enough of the tone,
\* are the loud ones
TenSecondTone ==
    [rms |-> [i \in 1..431 |-> IF i \in 172..261 THEN 8 ELSE 0],
     len |-> 10 * SampleRate]

\* the signals librosa.load returns: non-empty, every sample finite
Signals ==
    {sig \in {[rms |-> e, len |-> (Len(e) - 1) * HopLength + t] :
                e \in Envelopes \cup ShortEnvelopes, t \in TailSamples} :
        sig.len > 0}
    \cup {TenSecondTone}

Duration(y_n) == 10 * y_n                  \* y_n samples, in time units
\* the frame length 2048 in place of the hop length
FrameTimeByFrameLength(frame) == 10 * frame * 2048

FrameTime(frame) == 10 * frame * HopLength \* frame * 512 / sr
Seconds(tenths) == tenths * SampleRate     \* the literal tenths / 10

\* ---------------------------------------------------- library behaviour
\* librosa.effects.split: a frame is non-silent when its RMS, in dB
\* relative to the peak RMS, exceeds -top_db; with an all-zero signal every
\* frame is at 0 dB.  10^(-20/20) = 1/10 and 10^(-25/20) = 0.056234.
DbRatio(top_db) ==
    IF top_db = 20 THEN [num |-> 1, den |-> 10]
                   ELSE [num |-> 56234, den |-> 1000000]

NonSilent(rms, top_db) ==
    LET ref == MaxSeq(rms)
        q == DbRatio(top_db)
    IN  [i \in 1..Len(rms) |-> IF ref = 0 THEN TRUE
                               ELSE rms[i] * q.den > q.num * ref]

KthOf(S, k) == CHOOSE x \in S : Cardinality({z \in S : z <= x}) = k

\* the sample intervals [start, end) of the maximal non-silent stretches,
\* frame edges converted to samples and clipped to len(y)
Split(rms, y_n, top_db) ==
    LET mask == NonSilent(rms, top_db)
        n == Len(rms)
        starts == {i \in 1..n : mask[i] /\ (i = 1 \/ ~mask[i - 1])}
        ends == {i \in 1..n : mask[i] /\ (i = n \/ ~mask[i + 1])}
    IN  [k \in 1..Cardinality(starts) |->
            <<(KthOf(starts, k) - 1) * HopLength,
              MinNat(KthOf(ends, k) * HopLength, y_n)>>]

IsSilent(rms) == MaxSeq(rms) = 0

\* librosa.beat.beat_track: tempo 0 and no beats without onsets, otherwise
\* a tempo and strictly increasing frame indices below the frame count
BeatStarts == {0, 3}
BeatPeriods == {7}

BeatTrack(rms) ==
    IF IsSilent(rms) THEN {[tempo |-> 0, beats |-> <<>>]}
    ELSE {[tempo |-> (60 * SampleRate) \div (t[2] * HopLength),
           beats |-> [k \in 1..t[3] |-> t[1] + (k - 1) * t[2]]] :
             t \in {u \in BeatStarts \X BeatPeriods \X (0..MaxBeats) :
                      u[3] = 0 \/ u[1] + (u[3] - 1) * u[2] < Len(rms)}}

\* int(0.5 * sr / 512): the distance argument of find_peaks and the bin
\* width of the energy profile, in frames
HalfSecondFrames == (5 * SampleRate) \div (10 * HopLength)

\* scipy find_peaks on the smoothed RMS: interior frames, at least
\* `distance` apart, none on a constant signal; the smoothed value at a peak
\* is at least the mean of the signal
FindPeaks(rms) ==
    IF OrderStat(rms, 1) = MaxSeq(rms) THEN {[peaks |-> <<>>, height |-> 0]}
    ELSE {[peaks |-> pk, height |-> h] :
            pk \in {q \in {<<>>, <<1>>, <<1, 1 + HalfSecondFrames>>} :
                      \A i \in 1..Len(q) : q[i] < Len(rms) - 1},
            h \in {MaxSeq(rms)}}

SpectralSummary(rms) ==
    IF IsSilent(rms)
    THEN [avg_spectral_centroid |-> 0, avg_spectral_rolloff |-> 0,
          avg_zero_crossing_rate |-> 0, spectral_variance |-> 0]
    ELSE [avg_spectral_centroid |-> 440, avg_spectral_rolloff |-> 440,
          avg_zero_crossing_rate |-> 1, spectral_variance |-> 0]

\* ----------------------------------------------------------- the analyzer
find_emphasis_points(found) ==
    [k \in 1..Len(found.peaks) |->
        [timestamp |-> FrameTime(found.peaks[k]),
         intensity |-> found.height,
         type |-> "vocal_emphasis"]]

\* the breaks with the 0.5 s threshold of the cuts in place of 0.2 s
RECURSIVE BreaksFromHalfSecond(_, _)
BreaksFromHalfSecond(intervals, i) ==
    IF i >= Len(intervals) THEN <<>>
    ELSE LET break_start == 10 * intervals[i][2]
             break_end == 10 * intervals[i + 1][1]
             break_duration == break_end - break_start
         IN  (IF break_duration > Seconds(5)
              THEN <<[start |-> break_start,
                      end |-> break_end,
                      duration |-> break_duration,
                      type |-> IF break_duration < Seconds(10)
                               THEN "short" ELSE "long"]>>
              ELSE <<>>)
             \o BreaksFromHalfSecond(intervals, i + 1)

RECURSIVE BreaksFrom(_, _)
BreaksFrom(intervals, i) ==
    IF i >= Len(intervals) THEN <<>>
    ELSE LET break_start == 10 * intervals[i][2]
             break_end == 10 * intervals[i + 1][1]
             break_duration == break_end - break_start
         IN  (IF break_duration > Seconds(2)
              THEN <<[start |-> break_start,
                      end |-> break_end,
                      duration |-> break_duration,
                      type |-> IF break_duration < Seconds(10)
                               THEN "short" ELSE "long"]>>
              ELSE <<>>)
             \o BreaksFrom(intervals, i + 1)

\* the silence before the first and after the last interval counted as gaps
find_natural_breaks_with_edges(rms, y_n) ==
    BreaksFrom(<<<<0, 0>>>> \o Split(rms, y_n, 25) \o <<<<y_n, y_n>>>>, 1)

find_natural_breaks(rms, y_n) == BreaksFrom(Split(rms, y_n, 25), 1)

\* x / d for the float x = q.num / q.den and the float d.  Dividing by 0.0
\* raises nothing in numpy: the quotient keeps the denominator 0, and 0 / 0
\* is nan
FloatDiv(q, d) == [num |-> q.num, den |-> q.den * d]

IsNaN(q) == q.den = 0 /\ q.num = 0

\* only the bins that hold a whole half second of frames
create_energy_profile_whole_bins(rms) ==
    LET samples_per_interval == HalfSecondFrames
        rms_max == MaxSeq(rms)
        bins == Len(rms) \div samples_per_interval
    IN  [b \in 1..bins |->
            LET i == (b - 1) * samples_per_interval
                interval_energy ==
                    [num |-> SumRange(rms, i + 1, i + samples_per_interval),
                     den |-> samples_per_interval]
            IN  [timestamp |-> FrameTime(i),
                 energy |-> interval_energy,
                 relative_energy |-> FloatDiv(interval_energy, rms_max)]]

create_energy_profile(rms) ==
    LET samples_per_interval == HalfSecondFrames
        rms_max == MaxSeq(rms)
        n == Len(rms)
        bins == (n + samples_per_interval - 1) \div samples_per_interval
    IN  [b \in 1..bins |->
            LET i == (b - 1) * samples_per_interval
                end_idx == MinNat(i + samples_per_interval, n)
                interval_energy ==
                    [num |-> SumRange(rms, i + 1, end_idx),
                     den |-> end_idx - i]
            IN  [timestamp |-> FrameTime(i),
                 energy |-> interval_energy,
                 relative_energy |-> FloatDiv(interval_energy, rms_max)]]

\* 10 * np.percentile(rms, 70): linear interpolation between the order
\* statistics around the position 0.7 * (n - 1)
Percentile70x10(rms) ==
    LET n == Len(rms)
        h == 7 * (n - 1)
        lo == h \div 10
        lower == OrderStat(rms, lo + 1)
        upper == OrderStat(rms, MinNat(lo + 2, n))
    IN  10 * lower + (h % 10) * (upper - lower)

\* what np.mean, np.var and np.percentile read from the RMS frames: the
\* frame count, the sum, the sum of squares and 10 * the 70th percentile
EnergyStats(rms) ==
    [frames |-> Len(rms),
     total |-> SumSeq(rms),
     squares |-> SumSqSeq(rms),
     p70x10 |-> Percentile70x10(rms)]

\* energy_variance > avg_energy * 0.3, both sides multiplied by
\* 10 * RmsScale^2 * n^2
VarianceExceeds(st) ==
    10 * (st.frames * st.squares - st.total * st.total)
        > 3 * RmsScale * st.frames * st.total

\* avg_energy > np.percentile(rms, 70), both sides multiplied by 10 * n
MeanAbovePercentile(st) == 10 * st.total > st.frames * st.p70x10

\* the two tests in the other order
PacingStyleEnergeticFirst(st) ==
    IF MeanAbovePercentile(st) THEN "energetic"
    ELSE IF VarianceExceeds(st) THEN "dynamic"
    ELSE "steady"

PacingStyle(st) ==
    IF VarianceExceeds(st) THEN "dynamic"
    ELSE IF MeanAbovePercentile(st) THEN "energetic"
    ELSE "steady"

\* a cut for every break, whatever its duration
RECURSIVE BreakCutsEveryBreak(_)
BreakCutsEveryBreak(natural_breaks) ==
    IF natural_breaks = <<>> THEN <<>>
    ELSE <<[timestamp |-> Head(natural_breaks).start,
            type |-> "natural_break",
            confidence |-> 9]>>
         \o BreakCutsEveryBreak(Tail(natural_breaks))

\* confidences are in tenths: 9 is 0.9 and 6 is 0.6
RECURSIVE BreakCuts(_)
BreakCuts(natural_breaks) ==
    IF natural_breaks = <<>> THEN <<>>
    ELSE LET break_info == Head(natural_breaks)
         IN  (IF break_info.duration > Seconds(5)
              THEN <<[timestamp |-> break_info.start,
                      type |-> "natural_break",
                      confidence |-> 9]>>
              ELSE <<>>)
             \o BreakCuts(Tail(natural_breaks))

\* a cut on every beat
BeatCutsEveryBeat(beat_frames) ==
    [k \in 1..Len(beat_frames) |->
        [timestamp |-> FrameTime(beat_frames[k]),
         type |-> "rhythmic",
         confidence |-> 6]]

\* confidences as percentages
BeatCutsPercent(beat_frames) ==
    [k \in 1..((Len(beat_frames) + 3) \div 4) |->
        [timestamp |-> FrameTime(beat_frames[4 * (k - 1) + 1]),
         type |-> "rhythmic",
         confidence |-> 60]]

\* beat_timestamps[::4]
BeatCuts(beat_frames) ==
    [k \in 1..((Len(beat_frames) + 3) \div 4) |->
        [timestamp |-> FrameTime(beat_frames[4 * (k - 1) + 1]),
         type |-> "rhythmic",
         confidence |-> 6]]

\* the beat cuts before the break cuts
generate_pacing_recommendations_beats_first(st, beat_frames, natural_breaks) ==
    LET pacing_style == PacingStyle(st)
    IN  [pacing_style |-> pacing_style,
         recommended_cuts |->
             BeatCuts(beat_frames) \o BreakCuts(natural_breaks),
         avg_scene_duration |-> IF pacing_style = "energetic" THEN 3 ELSE 5,
         transition_style |-> IF pacing_style = "dynamic" THEN "quick"
                              ELSE "smooth"]

\* the short scene duration for the dynamic style too
generate_pacing_recommendations_short_scenes(st, beat_frames, natural_breaks) ==
    LET pacing_style == PacingStyle(st)
    IN  [pacing_style |-> pacing_style,
         recommended_cuts |->
             BreakCuts(natural_breaks) \o BeatCuts(beat_frames),
         avg_scene_duration |-> IF pacing_style = "steady" THEN 5 ELSE 3,
         transition_style |-> IF pacing_style = "dynamic" THEN "quick"
                              ELSE "smooth"]

\* st: the statistics of the rms argument
generate_pacing_recommendations(st, beat_frames, natural_breaks) ==
    LET pacing_style == PacingStyle(st)
        recommended_cuts == BreakCuts(natural_breaks) \o BeatCuts(beat_frames)
    IN  [pacing_style |-> pacing_style,
         recommended_cuts |-> recommended_cuts,
         avg_scene_duration |-> IF pacing_style = "energetic" THEN 3 ELSE 5,
         transition_style |-> IF pacing_style = "dynamic" THEN "quick"
                              ELSE "smooth"]

\* the duration taken from the start of the track, not of the segment
SpeechSegmentsDurationFromZero(intervals) ==
    [k \in 1..Len(intervals) |->
        [start |-> 10 * intervals[k][1],
         end |-> 10 * intervals[k][2],
         duration |-> 10 * intervals[k][2]]]

SpeechSegments(intervals) ==
    [k \in 1..Len(intervals) |->
        [start |-> 10 * intervals[k][1],
         end |-> 10 * intervals[k][2],
         duration |-> 10 * (intervals[k][2] - intervals[k][1])]]

\* the parts of the rhythm map computed from the signal alone
SignalParts(rms, y_n) ==
    [duration |-> Duration(y_n),
     speech_segments |-> SpeechSegments(Split(rms, y_n, 20)),
     natural_breaks |-> find_natural_breaks(rms, y_n),
     spectral_features |-> SpectralSummary(rms),
     energy_profile |-> create_energy_profile(rms),
     intervals |-> Split(rms, y_n, 25),
     stats |-> EnergyStats(rms)]

\* the floor division beat * 512 // sr: beats in whole seconds
BeatTimesWholeSeconds(beat_frames) ==
    [k \in 1..Len(beat_frames) |->
        Seconds(10) * ((beat_frames[k] * HopLength) \div SampleRate)]

\* [float(beat * 512 / sr) for beat in beats]
BeatTimes(beat_frames) ==
    [k \in 1..Len(beat_frames) |-> FrameTime(beat_frames[k])]

\* the beats left out of the dictionary when the tracker found none
RhythmMapWithoutEmptyBeats(parts, tracked, found) ==
    LET rest ==
            [duration |-> parts.duration,
             tempo |-> tracked.tempo,
             speech_segments |-> parts.speech_segments,
             emphasis_points |-> find_emphasis_points(found),
             natural_breaks |-> parts.natural_breaks,
             spectral_features |-> parts.spectral_features,
             energy_profile |-> parts.energy_profile,
             pacing_recommendations |->
                 generate_pacing_recommendations(parts.stats, tracked.beats,
                                                 parts.natural_breaks)]
    IN  IF tracked.beats = <<>> THEN rest
        ELSE [f \in DOMAIN rest \cup {"beats"} |->
                IF f = "beats" THEN BeatTimes(tracked.beats) ELSE rest[f]]

RhythmMap(parts, tracked, found) ==
    [duration |-> parts.duration,
     tempo |-> tracked.tempo,
     beats |-> BeatTimes(tracked.beats),
     speech_segments |-> parts.speech_segments,
     emphasis_points |-> find_emphasis_points(found),
     natural_breaks |-> parts.natural_breaks,
     spectral_features |-> parts.spectral_features,
     energy_profile |-> parts.energy_profile,
     pacing_recommendations |->
         generate_pacing_recommendations(parts.stats, tracked.beats,
                                         parts.natural_breaks)]

\* ------------------------------------------------------------------- JSON
\* A JSON document is modelled by its syntax tree: a number or a string is
\* a token [json, text], an array is a sequence and an object is a function
\* from its keys.

\* json.dump of a finite float (here an integer number of time units or
\* amplitude steps): the shortest decimal that reads back as the same float
JsonNumber(x) == [json |-> "number", text |-> x]

\* json.dump of a float that is a quotient: a finite one as a number; nan
\* and the infinities, with allow_nan left at True, as the bare words NaN
\* and Infinity
JsonFloat(q) ==
    IF q.den # 0 THEN [json |-> "number", text |-> q]
    ELSE [json |-> "word", text |-> IF q.num = 0 THEN "NaN" ELSE "Infinity"]

JsonString(str) == [json |-> "string", text |-> str]

JsonDump(m) ==
    [duration |-> JsonNumber(m.duration),
     tempo |-> JsonNumber(m.tempo),
     beats |-> [k \in 1..Len(m.beats) |-> JsonNumber(m.beats[k])],
     speech_segments |->
         [k \in 1..Len(m.speech_segments) |->
             [start |-> JsonNumber(m.speech_segments[k].start),
              end |-> JsonNumber(m.speech_segments[k].end),
              duration |-> JsonNumber(m.speech_segments[k].duration)]],
     emphasis_points |->
         [k \in 1..Len(m.emphasis_points) |->
             [timestamp |-> JsonNumber(m.emphasis_points[k].timestamp),
              intensity |-> JsonNumber(m.emphasis_points[k].intensity),
              type |-> JsonString(m.emphasis_points[k].type)]],
     natural_breaks |->
         [k \in 1..Len(m.natural_breaks) |->
             [start |-> JsonNumber(m.natural_breaks[k].start),
              end |-> JsonNumber(m.natural_breaks[k].end),
              duration |-> JsonNumber(m.natural_breaks[k].duration),
              type |-> JsonString(m.natural_breaks[k].type)]],
     spectral_features |->
         [f \in DOMAIN m.spectral_features |->
             JsonNumber(m.spectral_features[f])],
     energy_profile |->
         [k \in 1..Len(m.energy_profile) |->
             [timestamp |-> JsonNumber(m.energy_profile[k].timestamp),
              energy |-> JsonFloat(m.energy_profile[k].energy),
              relative_energy |->
                  JsonFloat(m.energy_profile[k].relative_energy)]],
     pacing_recommendations |->
         [pacing_style |->
              JsonString(m.pacing_recommendations.pacing_style),
          recommended_cuts |->
              [k \in 1..Len(m.pacing_recommendations.recommended_cuts) |->
                  [timestamp |-> JsonNumber(
                       m.pacing_recommendations.recommended_cuts[k].timestamp),
                   type |-> JsonString(
                       m.pacing_recommendations.recommended_cuts[k].type),
                   confidence |-> JsonNumber(
                       m.pacing_recommendations.recommended_cuts[k].confidence)]],
          avg_scene_duration |->
              JsonNumber(m.pacing_recommendations.avg_scene_duration),
          transition_style |->
              JsonString(m.pacing_recommendations.transition_style)]]

\* json.load of a number token, or of one of the bare words: each NaN
\* becomes a new nan
JsonLoadFloat(j) ==
    IF j.json = "number" THEN j.text
    ELSE IF j.text = "NaN" THEN [num |-> 0, den |-> 0]
    ELSE [num |-> 1, den |-> 0]

JsonLoad(d) ==
    [duration |-> d.duration.text,
     tempo |-> d.tempo.text,
     beats |-> [k \in 1..Len(d.beats) |-> d.beats[k].text],
     speech_segments |->
         [k \in 1..Len(d.speech_segments) |->
             [f \in DOMAIN d.speech_segments[k] |->
                 d.speech_segments[k][f].text]],
     emphasis_points |->
         [k \in 1..Len(d.emphasis_points) |->
             [f \in DOMAIN d.emphasis_points[k] |->
                 d.emphasis_points[k][f].text]],
     natural_breaks |->
         [k \in 1..Len(d.natural_breaks) |->
             [f \in DOMAIN d.natural_breaks[k] |->
                 d.natural_breaks[k][f].text]],
     spectral_features |->
         [f \in DOMAIN d.spectral_features |-> d.spectral_features[f].text],
     energy_profile |->
         [k \in 1..Len(d.energy_profile) |->
             [timestamp |-> d.energy_profile[k].timestamp.text,
              energy |-> JsonLoadFloat(d.energy_profile[k].energy),
              relative_energy |->
                  JsonLoadFloat(d.energy_profile[k].relative_energy)]],
     pacing_recommendations |->
         [pacing_style |-> d.pacing_recommendations.pacing_style.text,
          recommended_cuts |->
              [k \in 1..Len(d.pacing_recommendations.recommended_cuts) |->
                  [f \in DOMAIN d.pacing_recommendations.recommended_cuts[k] |->
                      d.pacing_recommendations.recommended_cuts[k][f].text]],
          avg_scene_duration |->
              d.pacing_recommendations.avg_scene_duration.text,
          transition_style |->
              d.pacing_recommendations.transition_style.text]]

\* ------------------------------------------------------------------ state
VARIABLES
    pc,          \* "idle", "returned" or "raised"
    buffer,      \* what librosa.load made of the file: "none" before the
                 \* call, "valid", "empty", "nonfinite" or "unreadable"
    y,           \* the decoded signal: [rms: envelope, len: samples]
    produced,    \* the analyzer outputs computed so far in the call
    beats,       \* the beat frames beat_track returned
    intervals,   \* the active intervals of the break-candidate segmentation
    stats,       \* the frame statistics the pacing style is decided on
    rhythm_map,  \* the value create_rhythm_map returned
    document,    \* the JSON document written from the rhythm map
    pacing_again, \* what a second run of the recommender returned
    loaded,      \* the signal as librosa.load returned it
    outputs,     \* what the analyzers of a call in progress have returned
    \* ---- one call of a function wrapped by retry_with_backoff
    wrapper,     \* "idle", "calling", "returned" or "raised"
    max_retries, \* the decorator's max_retries
    backoff_factor, \* the decorator's backoff_factor, in seconds
    attempt,     \* the loop variable of the wrapper
    invocations, \* what each invocation of the function did, in order
    slept,       \* the arguments of time.sleep, in order
    outcome,     \* the value returned or the exception raised
    \* ---- one call of VideoAssembler.assemble_final_video
    assembling,  \* "idle", "composing", "submitting", "waiting", "returned"
                 \* or "raised"
    outer,       \* the attempt of the wrapper of assemble_final_video
    inner,       \* the attempt of the wrapper of _submit_render_job
    posts,       \* the number of POST requests sent
    submitted,   \* the ids the submissions returned, in order
    render_id,   \* the id _wait_for_render_completion polls
    elapsed,     \* time.time() - start_time, seconds
    last_poll,   \* what the latest poll of the wait in progress reported
    waits,       \* how each wait that is over ended
    paused,      \* the sleeps of the two wrappers, in order
    final,       \* the URL returned or the exception raised
    \* ---- one call of MediaManager.upload_from_url
    storing,     \* "idle", "requesting", "writing", "uploading",
                 \* "publishing", "cleaning", "returned" or "raised"
    url,         \* the argument url
    remote_path, \* the argument remote_path
    chunks,      \* the chunks of the response not yet written
    temp_file,   \* the chunks in the temporary file, or "none", "deleted"
    blob,        \* the object at remote_path: "none", "private", "public"
    calls,       \* how often the wrapper has invoked upload_from_url
    failed_at,   \* the step of the latest invocation that raised
    stored_url,  \* what the wrapper returned or raised
    \* ---- one call of AIDirector.refine_plan_with_audio_rhythm
    refining,    \* "idle", "requesting", "parsing", "building", "returned"
                 \* or "raised"
    refine_attempt,      \* the attempt of the wrapper
    production_plan,     \* the scenes and total_duration of the plan
    original_plan,       \* the plan as it was when the wrapper was called
    rhythm_duration,     \* rhythm_map["duration"], seconds
    updated_scenes_data, \* the timing entries json.loads returned
    updated_scenes,      \* the scenes built so far
    refine_error,        \* the exception of the latest failed attempt
    \* ---- one call of AIVideoDirectorPipeline.create_video
    running,     \* "idle", "phase", "summary", "returned" or "raised"
    phase,       \* the phase in progress, 1..4
    position,    \* the call of the phase that is next
    call_attempt, \* the attempt of the wrapper of that call
    started,     \* the phases started, in order
    phases_returned, \* the number of phases that have returned
    called,      \* the calls made so far, each with its phase
    cast,        \* the number of characters of the plan
    scene_types, \* the visual types of the scenes of the plan
    voiceover,   \* the main voiceover has been generated
    analysis_attempts, \* how often create_rhythm_map has been invoked
    rhythm_map_made,   \* create_rhythm_map has returned a rhythm map
    rhythm_file, \* the rhythm-map file: "none" or "written"
    project_data, \* the summary create_video returned, or "none"
    failed_call  \* the call whose exception left create_video

\* the variables of one call of create_rhythm_map and of the save after it
analysis ==
    <<pc, buffer, y, produced, beats, intervals, stats, rhythm_map, document>>

\* the variables of a call of a function wrapped by retry_with_backoff
retrying ==
    <<wrapper, max_retries, backoff_factor, attempt, invocations, slept,
      outcome>>

\* the variables of a call of assemble_final_video
rendering ==
    <<assembling, outer, inner, posts, submitted, render_id, elapsed,
      last_poll, waits, paused, final>>

\* the variables of a call of upload_from_url
uploading ==
    <<storing, url, remote_path, chunks, temp_file, blob, calls, failed_at,
      stored_url>>

\* the variables of a call of refine_plan_with_audio_rhythm
refinement ==
    <<refining, refine_attempt, production_plan, original_plan,
      rhythm_duration, updated_scenes_data, updated_scenes, refine_error>>

\* the variables of a call of create_video
pipeline ==
    <<running, phase, position, call_attempt, started, phases_returned,
      called, cast, scene_types, voiceover, analysis_attempts,
      rhythm_map_made, rhythm_file, project_data, failed_call>>

\* the variables outside the audio analysis
beyond == <<retrying, rendering, uploading, refinement, pipeline>>

\* the variables of the other operations
rest == <<pacing_again, loaded, outputs, beyond>>

\* the variables of the audio analysis
audio == <<analysis, pacing_again, loaded, outputs>>

\* the variables a call of a wrapped function leaves alone
besides_retrying == <<audio, rendering, uploading, refinement, pipeline>>

\* the variables a call of assemble_final_video leaves alone
besides_rendering == <<audio, retrying, uploading, refinement, pipeline>>

\* the variables a call of upload_from_url leaves alone
besides_uploading == <<audio, retrying, rendering, refinement, pipeline>>

\* the variables a call of refine_plan_with_audio_rhythm leaves alone
besides_refinement == <<audio, retrying, rendering, uploading, pipeline>>

\* the variables a call of create_video leaves alone
besides_pipeline == <<audio, retrying, rendering, uploading, refinement>>

vars == <<analysis, rest>>

NoPacing == "none"

NoDocument == "none"

NoSignal == [rms |-> <<>>, len |-> 0]

NoStats == [frames |-> 0, total |-> 0, squares |-> 0, p70x10 |-> 0]

\* the analyzer outputs in the order create_rhythm_map computes them
AnalyzerOutputs ==
    <<"beat_track", "split", "rms", "emphasis_points", "natural_breaks",
      "spectral_features", "energy_profile", "pacing_recommendations">>

OutputsBefore(k) == {AnalyzerOutputs[i] : i \in 1..(k - 1)}

\* create_video has returned no summary
NoProjectData == [scenes_count |-> -1, characters_count |-> -1]

NoOutputs ==
    [duration |-> 0,
     tracked |-> [tempo |-> 0, beats |-> <<>>],
     speech_segments |-> <<>>,
     rms |-> <<>>,
     found |-> [peaks |-> <<>>, height |-> 0],
     natural_breaks |-> <<>>,
     spectral_features |-> SpectralSummary(<<0>>)]

Init ==
    /\ pc = "idle"
    /\ buffer = "none"
    /\ y = NoSignal
    /\ produced = {}
    /\ beats = <<>>
    /\ intervals = <<>>
    /\ stats = NoStats
    /\ rhythm_map = NoMap
    /\ document = NoDocument
    /\ pacing_again = NoPacing
    /\ loaded = NoSignal
    /\ outputs = NoOutputs
    /\ wrapper = "idle"
    /\ max_retries = 0
    /\ backoff_factor = 0
    /\ attempt = 0
    /\ invocations = <<>>
    /\ slept = <<>>
    /\ outcome = "none"
    /\ assembling = "idle"
    /\ outer = 0
    /\ inner = 0
    /\ posts = 0
    /\ submitted = <<>>
    /\ render_id = 0
    /\ elapsed = 0
    /\ last_poll = "none"
    /\ waits = <<>>
    /\ paused = <<>>
    /\ final = "none"
    /\ storing = "idle"
    /\ url = <<>>
    /\ remote_path = "none"
    /\ chunks = 0
    /\ temp_file = "none"
    /\ blob = "none"
    /\ calls = 0
    /\ failed_at = "none"
    /\ stored_url = <<>>
    /\ refining = "idle"
    /\ refine_attempt = 0
    /\ production_plan = [scenes |-> <<>>, total_duration |-> 0]
    /\ original_plan = [scenes |-> <<>>, total_duration |-> 0]
    /\ rhythm_duration = 0
    /\ updated_scenes_data = <<>>
    /\ updated_scenes = <<>>
    /\ refine_error = "none"
    /\ running = "idle"
    /\ phase = 0
    /\ position = 0
    /\ call_attempt = 0
    /\ started = <<>>
    /\ phases_returned = 0
    /\ called = {}
    /\ cast = 0
    /\ scene_types = <<>>
    /\ voiceover = FALSE
    /\ analysis_attempts = 0
    /\ rhythm_map_made = FALSE
    /\ rhythm_file = "none"
    /\ project_data = NoProjectData
    /\ failed_call = "none"

\* create_rhythm_map on a file that decodes to a non-empty, finite signal
create_rhythm_map ==
    /\ pc = "idle"
    /\ \E sig \in Signals :
         \E parts \in {SignalParts(sig.rms, sig.len)} :
           \E tracked \in BeatTrack(sig.rms), found \in FindPeaks(sig.rms) :
             /\ y' = sig
             /\ beats' = tracked.beats
             /\ intervals' = parts.intervals
             /\ stats' = parts.stats
             /\ rhythm_map' = RhythmMap(parts, tracked, found)
    /\ buffer' = "valid"
    /\ produced' = OutputsBefore(Len(AnalyzerOutputs) + 1)
    /\ pc' = "returned"
    /\ UNCHANGED document
    /\ UNCHANGED rest

\* create_rhythm_map on a file librosa.load cannot read: the exception is
\* logged and raised again
create_rhythm_map_raises ==
    /\ pc = "idle"
    /\ pc' = "raised"
    /\ buffer' = "unreadable"
    /\ UNCHANGED <<y, produced, beats, intervals, stats, rhythm_map, document>>
    /\ UNCHANGED rest

\* create_rhythm_map on a file that decodes to a signal with a NaN or an
\* infinite sample: the code checks nothing itself; the short-time Fourier
\* transform under beat_track (line 26) refuses the signal, and the
\* exception is logged and raised again
create_rhythm_map_nonfinite ==
    /\ pc = "idle"
    /\ \E sig \in Signals : y' = [rms |-> <<>>, len |-> sig.len]
    /\ buffer' = "nonfinite"
    /\ pc' = "raised"
    /\ UNCHANGED <<produced, beats, intervals, stats, rhythm_map, document>>
    /\ UNCHANGED rest

\* create_rhythm_map on a file that decodes to zero samples: the code checks
\* nothing itself, so what happens is the libraries' business.  Where the
\* framed analyses pad with reflection, the first of them (beat_track,
\* line 26) raises.  Where they pad with zeros, the empty signal is one
\* silent frame: beat tracking, both segmentations, the RMS analysis and the
\* emphasis and break detection all return, and zero_crossing_rate (line
\* 127), which pads with the edge value, raises.  Either exception is logged
\* and raised again.
create_rhythm_map_empty ==
    /\ pc = "idle"
    /\ y' = [rms |-> <<0>>, len |-> 0]
    /\ buffer' = "empty"
    /\ \/ UNCHANGED <<produced, beats, intervals>>
       \/ /\ produced' = OutputsBefore(6)
          /\ beats' = <<>>
          /\ intervals' = Split(<<0>>, 0, 25)
    /\ pc' = "raised"
    /\ UNCHANGED <<stats, rhythm_map, document>>
    /\ UNCHANGED rest

\* step 5 of the audio phase: the rhythm map create_rhythm_map returned is
\* written to rhythm_map_<project>.json
save_rhythm_map ==
    /\ pc = "returned"
    /\ document' = JsonDump(rhythm_map)
    /\ pc' = "saved"
    /\ UNCHANGED <<buffer, y, produced, beats, intervals, stats, rhythm_map>>
    /\ UNCHANGED rest

Next ==
    \/ create_rhythm_map
    \/ create_rhythm_map_raises
    \/ create_rhythm_map_nonfinite
    \/ create_rhythm_map_empty
    \/ save_rhythm_map

Spec == Init /\ [][Next]_vars

\* A beat tracker that breaks its contract: it reports one more beat, two
\* frames past the last frame of the signal.
BeatTrackPastEnd(rms) ==
    {[tempo |-> tr.tempo, beats |-> Append(tr.beats, Len(rms) + 1)] :
        tr \in BeatTrack(rms)}

\* create_rhythm_map when the beat tracker breaks its contract: lines 45-63
\* build the dictionary from whatever the analyzers returned, and line 66
\* returns it
create_rhythm_map_beat_past_end ==
    /\ pc = "idle"
    /\ \E sig \in Signals :
         \E parts \in {SignalParts(sig.rms, sig.len)} :
           \E tracked \in BeatTrackPastEnd(sig.rms), found \in FindPeaks(sig.rms) :
             /\ y' = sig
             /\ beats' = tracked.beats
             /\ intervals' = parts.intervals
             /\ stats' = parts.stats
             /\ rhythm_map' = RhythmMap(parts, tracked, found)
    /\ buffer' = "valid"
    /\ produced' = OutputsBefore(Len(AnalyzerOutputs) + 1)
    /\ pc' = "returned"
    /\ UNCHANGED document
    /\ UNCHANGED rest

NextDefective == Next \/ create_rhythm_map_beat_past_end

\* the program with a beat tracker that may break its contract
SpecDefective == Init /\ [][NextDefective]_vars

\* ------------------------------------------------------- a second run
\* the recommender appending to the cuts the earlier call left behind
generate_pacing_recommendations_again_keeping_cuts ==
    /\ pc = "returned"
    /\ \E fresh \in {generate_pacing_recommendations(
                         stats, beats, rhythm_map.natural_breaks)} :
         pacing_again' =
             [fresh EXCEPT !.recommended_cuts =
                 rhythm_map.pacing_recommendations.recommended_cuts \o @]
    /\ pc' = "repeated"
    /\ UNCHANGED <<buffer, y, produced, beats, intervals, stats, rhythm_map,
                   document, loaded, outputs>>
    /\ UNCHANGED beyond

\* _generate_pacing_recommendations called once more on the RMS frames,
\* beats and breaks of the call that returned: the method reads its
\* arguments and builds its result in local variables
generate_pacing_recommendations_again ==
    /\ pc = "returned"
    /\ pacing_again' =
         generate_pacing_recommendations(stats, beats,
                                         rhythm_map.natural_breaks)
    /\ pc' = "repeated"
    /\ UNCHANGED <<buffer, y, produced, beats, intervals, stats, rhythm_map,
                   document, loaded, outputs>>
    /\ UNCHANGED beyond

NextRepeated == create_rhythm_map \/ generate_pacing_recommendations_again

\* one analysis followed by a second run of the recommender
SpecRepeated == Init /\ [][NextRepeated]_vars

\* ------------------------------------------- the analyzers in any order
\* The four leaf analyzers of create_rhythm_map (beat tracking, line 26; the
\* silence segmentation, lines 33 and 40; the energy analysis, lines 36-37;
\* the spectral analysis, line 43) as steps of their own, taken in any
\* order over the buffer y, followed by the assembly of lines 45-63.

\* the signals of the step-wise analysis: at most three bins of frames
SteppedSignals ==
    {sig \in Signals : Len(sig.rms) <= 3 * HalfSecondFrames}

\* the silence segmentation trimming the last frame off the buffer
BufferAfterTrimming(analyzer, sig) ==
    IF analyzer = "split" /\ Len(sig.rms) > 1
    THEN [rms |-> SubSeq(sig.rms, 1, Len(sig.rms) - 1),
          len |-> sig.len - HopLength]
    ELSE sig

\* the buffer after an analyzer has run on it: every analyzer reads y and
\* returns new arrays
BufferAfter(analyzer, sig) == sig

\* lines 22-23: the file is decoded and the duration taken
load_audio ==
    /\ pc = "idle"
    /\ \E sig \in SteppedSignals :
         /\ y' = sig
         /\ loaded' = sig
         /\ outputs' = [outputs EXCEPT !.duration = Duration(sig.len)]
    /\ buffer' = "valid"
    /\ pc' = "analysing"
    /\ UNCHANGED <<produced, beats, intervals, stats, rhythm_map, document,
                   pacing_again>>
    /\ UNCHANGED beyond

\* line 26
beat_tracking ==
    /\ pc = "analysing"
    /\ "beat_track" \notin produced
    /\ \E tracked \in BeatTrack(y.rms) :
         /\ outputs' = [outputs EXCEPT !.tracked = tracked]
         /\ beats' = tracked.beats
    /\ produced' = produced \cup {"beat_track"}
    /\ y' = BufferAfter("beat_track", y)
    /\ UNCHANGED <<pc, buffer, intervals, stats, rhythm_map, document,
                   pacing_again, loaded>>
    /\ UNCHANGED beyond

\* lines 33 and 40: the speech segments and the natural breaks
silence_segmentation ==
    /\ pc = "analysing"
    /\ "split" \notin produced
    /\ outputs' =
         [outputs EXCEPT
             !.speech_segments = SpeechSegments(Split(y.rms, y.len, 20)),
             !.natural_breaks = find_natural_breaks(y.rms, y.len)]
    /\ intervals' = Split(y.rms, y.len, 25)
    /\ produced' = produced \cup {"split", "natural_breaks"}
    /\ y' = BufferAfter("split", y)
    /\ UNCHANGED <<pc, buffer, beats, stats, rhythm_map, document,
                   pacing_again, loaded>>
    /\ UNCHANGED beyond

\* lines 36-37: the RMS frames and the emphasis points
energy_analysis ==
    /\ pc = "analysing"
    /\ "rms" \notin produced
    /\ \E found \in FindPeaks(y.rms) :
         outputs' = [outputs EXCEPT !.rms = y.rms, !.found = found]
    /\ stats' = EnergyStats(y.rms)
    /\ produced' = produced \cup {"rms", "emphasis_points"}
    /\ y' = BufferAfter("rms", y)
    /\ UNCHANGED <<pc, buffer, beats, intervals, rhythm_map, document,
                   pacing_again, loaded>>
    /\ UNCHANGED beyond

\* line 43
analyze_spectral_features ==
    /\ pc = "analysing"
    /\ "spectral_features" \notin produced
    /\ outputs' =
         [outputs EXCEPT !.spectral_features = SpectralSummary(y.rms)]
    /\ produced' = produced \cup {"spectral_features"}
    /\ y' = BufferAfter("spectral_features", y)
    /\ UNCHANGED <<pc, buffer, beats, intervals, stats, rhythm_map, document,
                   pacing_again, loaded>>
    /\ UNCHANGED beyond

\* the outputs lines 45-63 read: the dictionary is built once every one of
\* them has been assigned
LeafOutputs ==
    {"beat_track", "split", "rms", "emphasis_points", "natural_breaks",
     "spectral_features"}

\* lines 45-66: the energy profile and the pacing recommendations are
\* computed from the outputs and the dictionary is returned
assemble_rhythm_map ==
    /\ pc = "analysing"
    /\ LeafOutputs \subseteq produced
    /\ rhythm_map' =
         RhythmMap([duration |-> outputs.duration,
                    speech_segments |-> outputs.speech_segments,
                    natural_breaks |-> outputs.natural_breaks,
                    spectral_features |-> outputs.spectral_features,
                    energy_profile |-> create_energy_profile(outputs.rms),
                    intervals |-> intervals,
                    stats |-> stats],
                   outputs.tracked, outputs.found)
    /\ produced' = produced \cup {"energy_profile", "pacing_recommendations"}
    /\ pc' = "returned"
    /\ UNCHANGED <<buffer, y, beats, intervals, stats, document,
                   pacing_again, loaded, outputs>>
    /\ UNCHANGED beyond

NextInterleaved ==
    \/ load_audio
    \/ beat_tracking
    \/ silence_segmentation
    \/ energy_analysis
    \/ analyze_spectral_features
    \/ assemble_rhythm_map

\* one call of create_rhythm_map with its analyzers in any order
SpecInterleaved == Init /\ [][NextInterleaved]_vars

\* ---------------------------------------------------- retry_with_backoff
MaxRetries == 4                 \* the largest max_retries of a decorator

BackoffFactors == {1, 2}        \* the decorator's backoff_factor, seconds

Exceptions == {"error_a", "error_b"}   \* what the function may raise

Values == {"value_a", "value_b"}       \* what the function may return

\* the wait growing by one backoff_factor per attempt
WaitTimeLinear(factor, k) == factor * (k + 1)

\* wait_time = backoff_factor * (2 ** attempt)
WaitTime(factor, k) == factor * 2^k

\* the wrapper is called: the loop starts at attempt 0, and with
\* max_retries = 0 it is over at once and the wrapper returns None
wrapper_called ==
    /\ wrapper = "idle"
    /\ \E n \in 0..MaxRetries, factor \in BackoffFactors :
         /\ max_retries' = n
         /\ backoff_factor' = factor
         /\ wrapper' = IF n = 0 THEN "returned" ELSE "calling"
    /\ attempt' = 0
    /\ outcome' = "None"
    /\ UNCHANGED <<invocations, slept>>
    /\ UNCHANGED besides_retrying

\* the function is invoked and returns: the wrapper returns its value
attempt_returns ==
    /\ wrapper = "calling"
    /\ \E value \in Values :
         /\ invocations' = Append(invocations, value)
         /\ outcome' = value
    /\ wrapper' = "returned"
    /\ UNCHANGED <<max_retries, backoff_factor, attempt, slept>>
    /\ UNCHANGED besides_retrying

\* the function is invoked and raises: on the last attempt the exception
\* is raised again, otherwise the wrapper sleeps and the loop goes on
attempt_raises ==
    /\ wrapper = "calling"
    /\ \E e \in Exceptions :
         /\ invocations' = Append(invocations, e)
         /\ IF attempt = max_retries - 1
            THEN /\ wrapper' = "raised"
                 /\ outcome' = e
                 /\ UNCHANGED <<attempt, slept>>
            ELSE /\ slept' = Append(slept, WaitTime(backoff_factor, attempt))
                 /\ attempt' = attempt + 1
                 /\ UNCHANGED <<wrapper, outcome>>
    /\ UNCHANGED <<max_retries, backoff_factor>>
    /\ UNCHANGED besides_retrying

NextRetry == wrapper_called \/ attempt_returns \/ attempt_raises

\* one call of a function wrapped by retry_with_backoff
SpecRetry == Init /\ [][NextRetry]_vars

\* ------------------------------------------------- assemble_final_video
AssembleRetries == 3      \* @retry_with_backoff(max_retries=3), the render

SubmitRetriesPlusOne == 3 + 1

SubmitRetries == 3        \* @retry_with_backoff(max_retries=3), the POST

max_wait_time == 600      \* seconds

PendingSleep == 10        \* time.sleep(10): the render is still processing

ErrorSleep == 5           \* time.sleep(5): the poll failed

\* the seconds one GET may take
PollSeconds == {0, 5}

\* what a poll may report: a status of the render, no status at all, or a
\* requests.exceptions.RequestException
PollReports ==
    {"planned", "rendering", "unknown", "succeeded", "failed",
     "request_error"}

\* the url field of the render the API reports as succeeded
UrlOf(id) == <<"url", id>>

\* no URL
NoUrl == <<>>

\* a request error ending the wait
AfterPollRaisingOnError(report) ==
    IF report = "succeeded" THEN "return"
    ELSE IF report \in {"failed", "request_error"} THEN "raise"
    ELSE "sleep"

\* what _wait_for_render_completion does with the report of a poll
AfterPoll(report) ==
    IF report = "succeeded" THEN "return"
    ELSE IF report = "failed" THEN "raise"
    ELSE "sleep"

\* the sleep after a poll that did not end the wait
SleepAfter(report) ==
    IF report = "request_error" THEN ErrorSleep ELSE PendingSleep

\* the wrapper of assemble_final_video catches the exception e of its
\* attempt: the last attempt raises it again, an earlier one sleeps and
\* calls the function again
assemble_attempt_fails(e) ==
    IF outer = AssembleRetries - 1
    THEN /\ assembling' = "raised"
         /\ final' = e
         /\ UNCHANGED <<outer, paused>>
    ELSE /\ assembling' = "composing"
         /\ outer' = outer + 1
         /\ paused' = Append(paused, WaitTime(1, outer))
         /\ UNCHANGED final

\* the wrapper calls assemble_final_video for the first time
assemble_final_video ==
    /\ assembling = "idle"
    /\ assembling' = "composing"
    /\ UNCHANGED <<outer, inner, posts, submitted, render_id, elapsed,
                   last_poll, waits, paused, final>>
    /\ UNCHANGED besides_rendering

\* _create_comprehensive_edl returns and the wrapper of _submit_render_job
\* starts its loop
create_comprehensive_edl ==
    /\ assembling = "composing"
    /\ assembling' = "submitting"
    /\ inner' = 0
    /\ UNCHANGED <<outer, posts, submitted, render_id, elapsed, last_poll,
                   waits, paused, final>>
    /\ UNCHANGED besides_rendering

\* _create_comprehensive_edl raises
create_comprehensive_edl_raises ==
    /\ assembling = "composing"
    /\ assemble_attempt_fails("edl_error")
    /\ UNCHANGED <<inner, posts, submitted, render_id, elapsed, last_poll,
                   waits>>
    /\ UNCHANGED besides_rendering

\* the POST succeeds: the API has created a render and returns its id,
\* and _wait_for_render_completion takes start_time
submit_render_job ==
    /\ assembling = "submitting"
    /\ posts' = posts + 1
    /\ submitted' = Append(submitted, posts + 1)
    /\ render_id' = posts + 1
    /\ assembling' = "waiting"
    /\ elapsed' = 0
    /\ last_poll' = "none"
    /\ UNCHANGED <<outer, inner, waits, paused, final>>
    /\ UNCHANGED besides_rendering

\* the POST fails: the wrapper of _submit_render_job sleeps and posts
\* again, or after its last attempt raises into assemble_final_video
submit_render_job_raises ==
    /\ assembling = "submitting"
    /\ posts' = posts + 1
    /\ IF inner = SubmitRetries - 1
       THEN /\ assemble_attempt_fails("request_error")
            /\ UNCHANGED inner
       ELSE /\ inner' = inner + 1
            /\ paused' = Append(paused, WaitTime(1, inner))
            /\ UNCHANGED <<assembling, outer, final>>
    /\ UNCHANGED <<submitted, render_id, elapsed, last_poll, waits>>
    /\ UNCHANGED besides_rendering

\* one turn of the loop of _wait_for_render_completion
poll ==
    /\ assembling = "waiting"
    /\ elapsed < max_wait_time
    /\ \E report \in PollReports, seconds \in PollSeconds :
         /\ last_poll' = report
         /\ CASE AfterPoll(report) = "return" ->
                   /\ elapsed' = elapsed + seconds
                   /\ waits' = Append(waits,
                         [render_id |-> render_id, last_poll |-> report,
                          ended |-> "returned", url |-> UrlOf(render_id),
                          timed_out |-> FALSE])
                   /\ assembling' = "returned"
                   /\ final' = UrlOf(render_id)
                   /\ UNCHANGED <<outer, paused>>
              [] AfterPoll(report) = "raise" ->
                   /\ elapsed' = elapsed + seconds
                   /\ waits' = Append(waits,
                         [render_id |-> render_id, last_poll |-> report,
                          ended |-> "Exception", url |-> NoUrl,
                          timed_out |-> FALSE])
                   /\ assemble_attempt_fails("Exception")
              [] OTHER ->
                   /\ elapsed' = elapsed + seconds + SleepAfter(report)
                   /\ UNCHANGED <<assembling, outer, waits, paused, final>>
    /\ UNCHANGED <<inner, posts, submitted, render_id>>
    /\ UNCHANGED besides_rendering

\* the loop of _wait_for_render_completion is over
wait_times_out ==
    /\ assembling = "waiting"
    /\ ~(elapsed < max_wait_time)
    /\ waits' = Append(waits,
          [render_id |-> render_id, last_poll |-> last_poll,
           ended |-> "TimeoutError", url |-> NoUrl, timed_out |-> TRUE])
    /\ assemble_attempt_fails("TimeoutError")
    /\ UNCHANGED <<inner, posts, submitted, render_id, elapsed, last_poll>>
    /\ UNCHANGED besides_rendering

NextRender ==
    \/ assemble_final_video
    \/ create_comprehensive_edl
    \/ create_comprehensive_edl_raises
    \/ submit_render_job
    \/ submit_render_job_raises
    \/ poll
    \/ wait_times_out

\* one call of assemble_final_video
SpecRender == Init /\ [][NextRender]_vars

\* ------------------------------------------------------ upload_from_url
MaxChunks == 3                 \* the most chunks of a response

UploadRetries == 3             \* @retry_with_backoff(max_retries=3)

\* the URLs of generated assets and the paths they are stored at
AssetUrls == {<<"https://assets", "a">>, <<"https://assets", "b">>}

RemotePaths == {"scenes/a", "scenes/b"}

\* blob.public_url
PublicUrl(path) == <<"https://storage.googleapis.com", path>>

\* the steps of the try block, by the position they are taken at
UploadSteps ==
    [requesting |-> "writing", writing |-> "uploading",
     uploading |-> "publishing", publishing |-> "cleaning",
     cleaning |-> "returned"]

\* the except clause raising the exception again
OnExceptionRaise(original) == [raised |-> TRUE, value |-> <<"Exception">>]

\* the except clause: the error is logged and the original URL returned
OnException(original) == [raised |-> FALSE, value |-> original]

\* the wrapper invokes upload_from_url for the first time
upload_from_url ==
    /\ storing = "idle"
    /\ \E u \in AssetUrls, path \in RemotePaths :
         /\ url' = u
         /\ remote_path' = path
    /\ storing' = "requesting"
    /\ calls' = 1
    /\ UNCHANGED <<chunks, temp_file, blob, failed_at, stored_url>>
    /\ UNCHANGED besides_uploading

\* requests.get and raise_for_status pass and the temporary file is
\* created
download_starts ==
    /\ storing = "requesting"
    /\ \E n \in 0..MaxChunks : chunks' = n
    /\ temp_file' = 0
    /\ storing' = UploadSteps[storing]
    /\ UNCHANGED <<url, remote_path, blob, calls, failed_at, stored_url>>
    /\ UNCHANGED besides_uploading

\* one chunk is written to the temporary file
write_chunk ==
    /\ storing = "writing"
    /\ chunks > 0
    /\ chunks' = chunks - 1
    /\ temp_file' = temp_file + 1
    /\ UNCHANGED <<storing, url, remote_path, blob, calls, failed_at,
                   stored_url>>
    /\ UNCHANGED besides_uploading

\* the response is exhausted and the temporary file is closed
download_ends ==
    /\ storing = "writing"
    /\ chunks = 0
    /\ storing' = UploadSteps[storing]
    /\ UNCHANGED <<url, remote_path, chunks, temp_file, blob, calls,
                   failed_at, stored_url>>
    /\ UNCHANGED besides_uploading

\* blob.upload_from_filename(temp_path)
upload_from_filename ==
    /\ storing = "uploading"
    /\ blob' = "private"
    /\ storing' = UploadSteps[storing]
    /\ UNCHANGED <<url, remote_path, chunks, temp_file, calls, failed_at,
                   stored_url>>
    /\ UNCHANGED besides_uploading

\* blob.make_public()
make_public ==
    /\ storing = "publishing"
    /\ blob' = "public"
    /\ storing' = UploadSteps[storing]
    /\ UNCHANGED <<url, remote_path, chunks, temp_file, calls, failed_at,
                   stored_url>>
    /\ UNCHANGED besides_uploading

\* os.unlink(temp_path), and the public URL is returned through the
\* wrapper
unlink_and_return ==
    /\ storing = "cleaning"
    /\ temp_file' = "deleted"
    /\ stored_url' = PublicUrl(remote_path)
    /\ failed_at' = "none"
    /\ storing' = UploadSteps[storing]
    /\ UNCHANGED <<url, remote_path, chunks, blob, calls>>
    /\ UNCHANGED besides_uploading

\* a step of the try block raises: the except clause decides what the
\* invocation gives the wrapper, which returns a value at once, and
\* after an exception invokes the function again or, after its last
\* attempt, raises
step_raises ==
    /\ storing \in DOMAIN UploadSteps
    /\ failed_at' = storing
    /\ IF ~OnException(url).raised
       THEN /\ stored_url' = OnException(url).value
            /\ storing' = "returned"
            /\ UNCHANGED calls
       ELSE IF calls = UploadRetries
       THEN /\ stored_url' = OnException(url).value
            /\ storing' = "raised"
            /\ UNCHANGED calls
       ELSE /\ calls' = calls + 1
            /\ storing' = "requesting"
            /\ UNCHANGED stored_url
    /\ UNCHANGED <<url, remote_path, chunks, temp_file, blob>>
    /\ UNCHANGED besides_uploading

NextUpload ==
    \/ upload_from_url
    \/ download_starts
    \/ write_chunk
    \/ download_ends
    \/ upload_from_filename
    \/ make_public
    \/ unlink_and_return
    \/ step_raises

\* one call of upload_from_url
SpecUpload == Init /\ [][NextUpload]_vars

\* ---------------------------------------- refine_plan_with_audio_rhythm
MaxScenes == 2                 \* the most scenes of a plan

MaxEntries == 3                \* the most timing entries of a response

RefineRetries == 3             \* @retry_with_backoff(max_retries=3)

VisualTypes == <<"character", "broll", "talking_avatar">>

\* the k-th scene of a plan before the refinement
PlannedScene(k) ==
    [id |-> k,
     description |-> <<"description", k>>,
     script_segment |-> <<"script_segment", k>>,
     duration_estimate |-> 5,
     visual_type |-> VisualTypes[((k - 1) % 3) + 1],
     characters |-> <<"characters", k>>,
     mood |-> <<"mood", k>>,
     camera_angle |-> <<"camera_angle", k>>,
     start_time |-> 5 * (k - 1),
     end_time |-> 5 * k]

\* the plans create_production_plan may have returned
Plans ==
    {[scenes |-> [k \in 1..n |-> PlannedScene(k)], total_duration |-> 5 * n] :
        n \in 1..MaxScenes}

\* the durations of the rhythm map, seconds
RhythmDurations == {7, 12}

\* the timing entries of a response: one with all its keys, one with
\* none, and one whose start_time is not a number
EntryKinds == {"full", "bare", "malformed"}

Responses ==
    UNION {[1..n -> EntryKinds] : n \in 0..MaxEntries}

\* scene_data.get(key, default) of the k-th entry
Get(kind, k, key, default) ==
    IF kind = "bare" THEN default
    ELSE CASE key = "id" -> 100 + k
           [] key = "start_time" -> 2 * (k - 1)
           [] key = "end_time" -> 2 * k
           [] key = "duration" -> 2

\* the original scene of the last index for the entries beyond the plan
OriginalSceneOrLast(scenes, k) ==
    IF k <= Len(scenes) THEN scenes[k] ELSE scenes[Len(scenes)]

\* production_plan.scenes[i] if i < len(production_plan.scenes) else
\* production_plan.scenes[0], for the k-th entry (i = k - 1)
OriginalScene(scenes, k) ==
    IF k <= Len(scenes) THEN scenes[k] ELSE scenes[1]

\* the Scene built from the k-th entry
UpdatedScene(scenes, kind, k) ==
    [id |-> Get(kind, k, "id", OriginalScene(scenes, k).id),
     start_time |-> Get(kind, k, "start_time", 0),
     end_time |-> Get(kind, k, "end_time", 5),
     duration_estimate |->
        Get(kind, k, "duration",
            Get(kind, k, "end_time", 5) - Get(kind, k, "start_time", 0)),
     description |-> OriginalScene(scenes, k).description,
     script_segment |-> OriginalScene(scenes, k).script_segment,
     visual_type |-> OriginalScene(scenes, k).visual_type,
     characters |-> OriginalScene(scenes, k).characters,
     mood |-> OriginalScene(scenes, k).mood,
     camera_angle |-> OriginalScene(scenes, k).camera_angle]

\* the wrapper catches the exception e of an attempt: the last attempt
\* raises it again, an earlier one sleeps and calls the function again
refine_attempt_fails(e) ==
    /\ refine_error' = e
    /\ IF refine_attempt = RefineRetries - 1
       THEN /\ refining' = "raised"
            /\ UNCHANGED refine_attempt
       ELSE /\ refining' = "requesting"
            /\ refine_attempt' = refine_attempt + 1
    /\ UNCHANGED <<production_plan, original_plan, rhythm_duration,
                   updated_scenes_data, updated_scenes>>

\* the wrapper invokes refine_plan_with_audio_rhythm for the first time
refine_plan_with_audio_rhythm ==
    /\ refining = "idle"
    /\ \E plan \in Plans, duration \in RhythmDurations :
         /\ production_plan' = plan
         /\ original_plan' = plan
         /\ rhythm_duration' = duration
    /\ refining' = "requesting"
    /\ UNCHANGED <<refine_attempt, updated_scenes_data, updated_scenes,
                   refine_error>>
    /\ UNCHANGED besides_refinement

\* the chat completion returns
completion_returns ==
    /\ refining = "requesting"
    /\ refining' = "parsing"
    /\ UNCHANGED <<refine_attempt, production_plan, original_plan,
                   rhythm_duration, updated_scenes_data, updated_scenes,
                   refine_error>>
    /\ UNCHANGED besides_refinement

\* the chat completion raises
completion_raises ==
    /\ refining = "requesting"
    /\ refine_attempt_fails("request_error")
    /\ UNCHANGED besides_refinement

\* json.loads returns the list of timing entries
json_loads ==
    /\ refining = "parsing"
    /\ \E data \in Responses : updated_scenes_data' = data
    /\ updated_scenes' = <<>>
    /\ refining' = "building"
    /\ UNCHANGED <<refine_attempt, production_plan, original_plan,
                   rhythm_duration, refine_error>>
    /\ UNCHANGED besides_refinement

\* json.loads raises
json_loads_raises ==
    /\ refining = "parsing"
    /\ refine_attempt_fails("JSONDecodeError")
    /\ UNCHANGED besides_refinement

\* one turn of the loop: the scene of the next entry is built
build_scene ==
    /\ refining = "building"
    /\ Len(updated_scenes) < Len(updated_scenes_data)
    /\ LET k == Len(updated_scenes) + 1 IN
         /\ updated_scenes_data[k] # "malformed"
         /\ updated_scenes' =
               Append(updated_scenes,
                      UpdatedScene(production_plan.scenes,
                                   updated_scenes_data[k], k))
    /\ UNCHANGED <<refining, refine_attempt, production_plan, original_plan,
                   rhythm_duration, updated_scenes_data, refine_error>>
    /\ UNCHANGED besides_refinement

\* one turn of the loop: float() raises on the next entry
build_scene_raises ==
    /\ refining = "building"
    /\ Len(updated_scenes) < Len(updated_scenes_data)
    /\ updated_scenes_data[Len(updated_scenes) + 1] = "malformed"
    /\ refine_attempt_fails("ValueError")
    /\ UNCHANGED besides_refinement

\* the loop is over: the plan gets the new scenes and the duration of the
\* rhythm map, and is returned
plan_refined ==
    /\ refining = "building"
    /\ Len(updated_scenes) = Len(updated_scenes_data)
    /\ production_plan' =
          [scenes |-> updated_scenes, total_duration |-> rhythm_duration]
    /\ refining' = "returned"
    /\ UNCHANGED <<refine_attempt, original_plan, rhythm_duration,
                   updated_scenes_data, updated_scenes, refine_error>>
    /\ UNCHANGED besides_refinement

NextRefine ==
    \/ refine_plan_with_audio_rhythm
    \/ completion_returns
    \/ completion_raises
    \/ json_loads
    \/ json_loads_raises
    \/ build_scene
    \/ build_scene_raises
    \/ plan_refined

\* one call of refine_plan_with_audio_rhythm
SpecRefine == Init /\ [][NextRefine]_vars

\* --------------------------------------------------------- create_video
MaxCast == 2                   \* the most characters of a plan

LastPhase == 4                 \* the phases of create_video

\* the functions create_video calls that carry
\* @retry_with_backoff(max_retries=3)
Decorated ==
    {"create_production_plan", "create_character_reference",
     "generate_voiceover", "upload_file", "refine_plan_with_audio_rhythm",
     "generate_character_video_with_references", "generate_talking_avatar",
     "generate_broll_video", "generate_background_music",
     "assemble_final_video"}

\* the visual types of the scenes a video is generated for
GeneratedTypes == {"character", "talking_avatar", "broll"}

\* every call of the pipeline wrapped alike
RetriesOfEveryCall(call) == IF call \in Decorated THEN 3 ELSE 3

\* the attempts the wrapper of a call makes; a call without a wrapper is
\* made once
Retries(call) == IF call \in Decorated THEN 3 ELSE 1

\* the calls of _phase_1_preproduction
PreproductionCalls(characters) ==
    <<"create_production_plan", "save">>
    \o Concat([k \in 1..characters |->
            <<"create_character_reference", "store_character_reference">>])

\* the rhythm analysis before the voiceover
AudioTimingCallsAnalysisFirst ==
    <<"create_rhythm_map", "generate_voiceover", "upload_file", "json_dump",
      "refine_plan_with_audio_rhythm", "save">>

\* the calls of _phase_2_audio_timing
AudioTimingCalls ==
    <<"generate_voiceover", "upload_file", "create_rhythm_map", "json_dump",
      "refine_plan_with_audio_rhythm", "save">>

\* the calls of one turn of the loop of _phase_3_media_generation, for a
\* scene that has characters and whose video is generated
SceneCalls(visual_type) ==
    CASE visual_type = "character" ->
           <<"generate_character_video_with_references", "store_scene_asset">>
      [] visual_type = "talking_avatar" ->
           <<"generate_voiceover", "generate_talking_avatar",
             "store_scene_asset">>
      [] visual_type = "broll" ->
           <<"generate_broll_video", "store_scene_asset">>

\* the calls of _phase_3_media_generation, the music being stored
MediaGenerationCalls(types) ==
    Concat([k \in 1..Len(types) |-> SceneCalls(types[k])])
    \o <<"generate_background_music", "store_scene_asset">>

\* the calls of _phase_4_final_assembly
FinalAssemblyCalls == <<"assemble_final_video", "store_scene_asset">>

\* the calls of a phase of create_video
PhaseCalls(n, characters, types) ==
    CASE n = 1 -> PreproductionCalls(characters)
      [] n = 2 -> AudioTimingCalls
      [] n = 3 -> MediaGenerationCalls(types)
      [] n = 4 -> FinalAssemblyCalls

\* the call that is next
Call == PhaseCalls(phase, cast, scene_types)[position]

InPhase ==
    /\ running = "phase"
    /\ position <= Len(PhaseCalls(phase, cast, scene_types))

\* create_video is called and phase 1 starts
create_video ==
    /\ running = "idle"
    /\ running' = "phase"
    /\ phase' = 1
    /\ position' = 1
    /\ started' = <<1>>
    /\ UNCHANGED <<call_attempt, phases_returned, called, cast, scene_types,
                   voiceover, analysis_attempts, rhythm_map_made,
                   rhythm_file, project_data, failed_call>>
    /\ UNCHANGED besides_pipeline

\* create_production_plan returns the plan
create_production_plan ==
    /\ InPhase
    /\ Call = "create_production_plan"
    /\ \E characters \in 0..MaxCast, n \in 1..MaxScenes :
         /\ cast' = characters
         /\ \E types \in [1..n -> GeneratedTypes] : scene_types' = types
    /\ called' = called \cup {<<phase, Call>>}
    /\ position' = position + 1
    /\ call_attempt' = 0
    /\ UNCHANGED <<running, phase, started, phases_returned, voiceover,
                   analysis_attempts, rhythm_map_made, rhythm_file,
                   project_data, failed_call>>
    /\ UNCHANGED besides_pipeline

\* create_rhythm_map returns the rhythm map
create_rhythm_map_returns ==
    /\ InPhase
    /\ Call = "create_rhythm_map"
    /\ analysis_attempts' = analysis_attempts + 1
    /\ rhythm_map_made' = TRUE
    /\ called' = called \cup {<<phase, Call>>}
    /\ position' = position + 1
    /\ call_attempt' = 0
    /\ UNCHANGED <<running, phase, started, phases_returned, cast,
                   scene_types, voiceover, rhythm_file, project_data,
                   failed_call>>
    /\ UNCHANGED besides_pipeline

\* refine_plan_with_audio_rhythm returns the plan with one scene for every
\* timing entry
refine_plan_returns ==
    /\ InPhase
    /\ Call = "refine_plan_with_audio_rhythm"
    /\ \E entries \in 0..MaxEntries :
         scene_types' = [k \in 1..entries |-> OriginalScene(scene_types, k)]
    /\ called' = called \cup {<<phase, Call>>}
    /\ position' = position + 1
    /\ call_attempt' = 0
    /\ UNCHANGED <<running, phase, started, phases_returned, cast,
                   voiceover, analysis_attempts, rhythm_map_made,
                   rhythm_file, project_data, failed_call>>
    /\ UNCHANGED besides_pipeline

\* any other call returns
call_returns ==
    /\ InPhase
    /\ Call \notin {"create_production_plan", "create_rhythm_map",
                     "refine_plan_with_audio_rhythm"}
    /\ voiceover' = (voiceover \/ (phase = 2 /\ Call = "generate_voiceover"))
    /\ rhythm_file' = IF Call = "json_dump" THEN "written" ELSE rhythm_file
    /\ called' = called \cup {<<phase, Call>>}
    /\ position' = position + 1
    /\ call_attempt' = 0
    /\ UNCHANGED <<running, phase, started, phases_returned, cast,
                   scene_types, analysis_attempts, rhythm_map_made,
                   project_data, failed_call>>
    /\ UNCHANGED besides_pipeline

\* a call raises: its wrapper, if it has one, calls it again unless this
\* was the last attempt; otherwise the exception leaves the phase and
\* create_video
call_raises ==
    /\ InPhase
    /\ called' = called \cup {<<phase, Call>>}
    /\ analysis_attempts' =
          IF Call = "create_rhythm_map"
          THEN analysis_attempts + 1 ELSE analysis_attempts
    /\ IF call_attempt < Retries(Call) - 1
       THEN /\ call_attempt' = call_attempt + 1
            /\ UNCHANGED <<running, failed_call>>
       ELSE /\ running' = "raised"
            /\ failed_call' = Call
            /\ UNCHANGED call_attempt
    /\ UNCHANGED <<phase, position, started, phases_returned, cast,
                   scene_types, voiceover, rhythm_map_made, rhythm_file,
                   project_data>>
    /\ UNCHANGED besides_pipeline

\* the phase returns and the next one starts, or after the last phase the
\* summary
phase_returns ==
    /\ running = "phase"
    /\ position > Len(PhaseCalls(phase, cast, scene_types))
    /\ phases_returned' = phase
    /\ IF phase < LastPhase
       THEN /\ phase' = phase + 1
            /\ position' = 1
            /\ started' = Append(started, phase + 1)
            /\ UNCHANGED running
       ELSE /\ running' = "summary"
            /\ UNCHANGED <<phase, position, started>>
    /\ UNCHANGED <<call_attempt, called, cast, scene_types, voiceover,
                   analysis_attempts, rhythm_map_made, rhythm_file,
                   project_data, failed_call>>
    /\ UNCHANGED besides_pipeline

\* _create_project_summary returns and create_video returns its result
create_project_summary ==
    /\ running = "summary"
    /\ running' = "returned"
    /\ project_data' = [scenes_count |-> Len(scene_types),
                        characters_count |-> cast]
    /\ UNCHANGED <<phase, position, call_attempt, started, phases_returned,
                   called, cast, scene_types, voiceover, analysis_attempts,
                   rhythm_map_made, rhythm_file, failed_call>>
    /\ UNCHANGED besides_pipeline

\* _create_project_summary raises
create_project_summary_raises ==
    /\ running = "summary"
    /\ running' = "raised"
    /\ failed_call' = "create_project_summary"
    /\ UNCHANGED <<phase, position, call_attempt, started, phases_returned,
                   called, cast, scene_types, voiceover, analysis_attempts,
                   rhythm_map_made, rhythm_file, project_data>>
    /\ UNCHANGED besides_pipeline

NextPipeline ==
    \/ create_video
    \/ create_production_plan
    \/ create_rhythm_map_returns
    \/ refine_plan_returns
    \/ call_returns
    \/ call_raises
    \/ phase_returns
    \/ create_project_summary
    \/ create_project_summary_raises

\* one call of create_video
SpecPipeline == Init /\ [][NextPipeline]_vars

\* ----------------------------------------------------------------- claims
\* create_rhythm_map has returned a rhythm map
Returned == pc \in {"returned", "saved"}

Pacing == rhythm_map.pacing_recommendations

Cuts == rhythm_map.pacing_recommendations.recommended_cuts

\* the gaps between consecutive active intervals of the break-candidate
\* segmentation, as <<start, end>> in time units
BreakGaps ==
    [i \in 1..(Len(intervals) - 1) |->
        <<10 * intervals[i][2], 10 * intervals[i + 1][1]>>]

IsBreakOf(b, gap) == b.start = gap[1] /\ b.end = gap[2]

\* C1: a gap between consecutive active intervals of the break-candidate
\* segmentation is in natural_breaks if and only if it is longer than
\* 0.2 s; its kind is "long" if and only if it lasts at least 1.0 s and
\* "short" otherwise; so every break lasts more than 0.2 s and has the kind
\* of its duration.
C1_BreaksAreTheLongGaps ==
    Returned =>
        LET nb == rhythm_map.natural_breaks
        IN  /\ \A i \in 1..Len(BreakGaps) :
                 (\E k \in 1..Len(nb) : IsBreakOf(nb[k], BreakGaps[i]))
                     <=> 10 * (BreakGaps[i][2] - BreakGaps[i][1])
                            > 2 * 10 * SampleRate
            /\ \A k \in 1..Len(nb) :
                 /\ \E i \in 1..Len(BreakGaps) : IsBreakOf(nb[k], BreakGaps[i])
                 /\ nb[k].duration = nb[k].end - nb[k].start
                 /\ 10 * nb[k].duration > 2 * 10 * SampleRate
                 /\ nb[k].type = IF nb[k].duration >= 10 * SampleRate
                                 THEN "long" ELSE "short"

\* a signal with a dropped gap, a short break and a long break is beyond
\* MaxRuns; the witness has a dropped gap next to a long break
C1_Witness ==
    /\ Returned
    /\ \E i \in 1..Len(BreakGaps) :
         \A k \in 1..Len(rhythm_map.natural_breaks) :
            ~IsBreakOf(rhythm_map.natural_breaks[k], BreakGaps[i])
    /\ \E k \in 1..Len(rhythm_map.natural_breaks) :
         rhythm_map.natural_breaks[k].type = "long"

\* variance(rms) > 0.3 * mean(rms) and mean(rms) > percentile(rms, 70) on
\* the frame statistics, cleared of denominators
VarianceAboveMean ==
    10 * (stats.frames * stats.squares - stats.total * stats.total)
        > 3 * RmsScale * stats.frames * stats.total

MeanAboveP70 == 10 * stats.total > stats.frames * stats.p70x10

\* C2: the style is "dynamic" whenever the variance of the RMS frames
\* exceeds 0.3 times their mean, otherwise "energetic" whenever the mean
\* exceeds the 70th percentile, otherwise "steady"; frames that satisfy both
\* conditions are "dynamic".
C2_StyleFirstMatch ==
    Returned =>
        /\ Pacing.pacing_style \in {"dynamic", "energetic", "steady"}
        /\ (Pacing.pacing_style = "dynamic") <=> VarianceAboveMean
        /\ (Pacing.pacing_style = "energetic")
               <=> (~VarianceAboveMean /\ MeanAboveP70)
        /\ (Pacing.pacing_style = "steady")
               <=> (~VarianceAboveMean /\ ~MeanAboveP70)

C2_Witness ==
    /\ Returned
    /\ VarianceAboveMean
    /\ MeanAboveP70
    /\ Pacing.pacing_style = "dynamic"

\* the breaks that last more than 0.5 s
LongerThanHalfSecond(b) == 2 * b.duration > 10 * SampleRate

CutBreaks == SelectSeq(rhythm_map.natural_breaks, LongerThanHalfSecond)

\* the time of the beat at index 4 * (k - 1) of the beat sequence
FourthBeatTime(k) == 10 * (beats[4 * (k - 1) + 1] * 512)

\* C3: the cuts are the break-derived cuts, in the order of natural_breaks,
\* followed by the beat-derived cuts, in beat order; they are not sorted.
C3_CutsBreaksThenBeats ==
    Returned =>
        \E m \in 0..Len(Cuts) :
            /\ m = Len(CutBreaks)
            /\ \A k \in 1..m :
                 /\ Cuts[k].type = "natural_break"
                 /\ Cuts[k].timestamp = CutBreaks[k].start
            /\ \A k \in (m + 1)..Len(Cuts) :
                 /\ Cuts[k].type = "rhythmic"
                 /\ 4 * (k - m - 1) < Len(beats)
                 /\ Cuts[k].timestamp = FourthBeatTime(k - m)

\* two break cuts in break order, then a beat cut earlier than both
C3_Witness ==
    /\ Returned
    /\ Len(Cuts) >= 3
    /\ Cuts[1].type = "natural_break"
    /\ Cuts[2].type = "natural_break"
    /\ Cuts[3].type = "rhythmic"
    /\ Cuts[3].timestamp < Cuts[1].timestamp

ConfidenceInUnitInterval ==
    \A k \in 1..Len(Cuts) : Cuts[k].confidence > 0 /\ Cuts[k].confidence <= 10

\* C4 as claimed: the cuts are ordered by timestamp ascending and every
\* confidence is in (0, 1].
C4_CutsAscending ==
    Returned =>
        /\ \A k \in 1..(Len(Cuts) - 1) :
             Cuts[k].timestamp <= Cuts[k + 1].timestamp
        /\ ConfidenceInUnitInterval

\* C4 amended: every confidence is in (0, 1], and the cuts of one origin
\* are ordered by timestamp ascending among themselves.
C4_CutsAscendingPerOrigin ==
    Returned =>
        /\ \A i, j \in 1..Len(Cuts) :
             (i < j /\ Cuts[i].type = Cuts[j].type)
                 => Cuts[i].timestamp <= Cuts[j].timestamp
        /\ ConfidenceInUnitInterval

\* two cuts of each origin, and a cut earlier than its predecessor
C4_Witness ==
    /\ Returned
    /\ Len(Cuts) >= 4
    /\ Cuts[2].type = "natural_break"
    /\ Cuts[Len(Cuts) - 1].type = "rhythmic"
    /\ \E k \in 1..(Len(Cuts) - 1) : Cuts[k].timestamp > Cuts[k + 1].timestamp

IsBreakCut(c) == c.type = "natural_break"

IsBeatCut(c) == c.type = "rhythmic"

\* C5: the break-derived cuts correspond one to one to the natural breaks
\* longer than 0.5 s: one cut per such break, at the start of the break,
\* with origin "natural_break" and confidence 0.9; none for a shorter break.
C5_BreakCutsOneToOne ==
    Returned =>
        SelectSeq(Cuts, IsBreakCut)
            = [k \in 1..Len(CutBreaks) |->
                  [timestamp |-> CutBreaks[k].start,
                   type |-> "natural_break",
                   confidence |-> 9]]

\* a break of at most 0.5 s without a cut beside a break with a cut
C5_Witness ==
    /\ Returned
    /\ Len(CutBreaks) = 1
    /\ Len(rhythm_map.natural_breaks) = 2
    /\ Len(SelectSeq(Cuts, IsBreakCut)) = 1

\* C6: the beat-derived cuts are the beats at indices 0, 4, 8, ..., with
\* origin "rhythmic", confidence 0.6 and the time of the beat; n beats give
\* ceil(n / 4) cuts, no beats give none.
C6_BeatCutsEveryFourth ==
    Returned =>
        LET rc == SelectSeq(Cuts, IsBeatCut)
        IN  /\ 4 * Len(rc) >= Len(beats)
            /\ 4 * Len(rc) < Len(beats) + 4
            /\ \A k \in 1..Len(rc) :
                 rc[k] = [timestamp |-> FourthBeatTime(k),
                          type |-> "rhythmic",
                          confidence |-> 6]
            /\ \A k \in 1..Len(rc) :
                 rhythm_map.beats[4 * (k - 1) + 1] = rc[k].timestamp

\* five beats, cut at the first and the fifth
C6_Witness ==
    /\ Returned
    /\ Len(beats) = 5
    /\ Len(SelectSeq(Cuts, IsBeatCut)) = 2
    /\ beats[1] > 0

\* C7: avg_scene_duration is 3.0 exactly when the style is "energetic" and
\* 5.0 otherwise; transition_style is "quick" exactly when the style is
\* "dynamic" and "smooth" otherwise; quick never comes with 3.0.
C7_SceneDurationAndTransition ==
    Returned =>
        /\ Pacing.avg_scene_duration \in {3, 5}
        /\ (Pacing.avg_scene_duration = 3)
               <=> (Pacing.pacing_style = "energetic")
        /\ Pacing.transition_style \in {"quick", "smooth"}
        /\ (Pacing.transition_style = "quick")
               <=> (Pacing.pacing_style = "dynamic")
        /\ ~(Pacing.transition_style = "quick"
               /\ Pacing.avg_scene_duration = 3)

C7_Witness ==
    /\ Returned
    /\ Pacing.pacing_style = "energetic"
    /\ Pacing.avg_scene_duration = 3
    /\ Pacing.transition_style = "smooth"

InUnitInterval(q) == q.den > 0 /\ 0 <= q.num /\ q.num <= q.den

\* C8 as claimed: every relative_energy is in [0, 1], and a track with
\* non-zero energy has a point whose relative_energy is exactly 1.0.
C8_RelativeEnergyNormalized ==
    Returned =>
        LET profile == rhythm_map.energy_profile
        IN  /\ \A k \in 1..Len(profile) :
                 InUnitInterval(profile[k].relative_energy)
            /\ stats.total > 0 =>
                 \E k \in 1..Len(profile) :
                    /\ profile[k].relative_energy.den > 0
                    /\ profile[k].relative_energy.num
                           = profile[k].relative_energy.den

\* C9 as claimed: on a track whose RMS frames are all 0 no division by zero
\* happens and every relative_energy is 0.
C9_SilentRelativeEnergyZero ==
    (Returned /\ stats.total = 0) =>
        \A k \in 1..Len(rhythm_map.energy_profile) :
            /\ rhythm_map.energy_profile[k].relative_energy.den # 0
            /\ rhythm_map.energy_profile[k].relative_energy.num = 0

AllTimestamps ==
    {rhythm_map.beats[k] : k \in 1..Len(rhythm_map.beats)}
    \cup {rhythm_map.speech_segments[k].start :
            k \in 1..Len(rhythm_map.speech_segments)}
    \cup {rhythm_map.speech_segments[k].end :
            k \in 1..Len(rhythm_map.speech_segments)}
    \cup {rhythm_map.natural_breaks[k].start :
            k \in 1..Len(rhythm_map.natural_breaks)}
    \cup {rhythm_map.natural_breaks[k].end :
            k \in 1..Len(rhythm_map.natural_breaks)}
    \cup {rhythm_map.emphasis_points[k].timestamp :
            k \in 1..Len(rhythm_map.emphasis_points)}
    \cup {rhythm_map.energy_profile[k].timestamp :
            k \in 1..Len(rhythm_map.energy_profile)}
    \cup {Cuts[k].timestamp : k \in 1..Len(Cuts)}

\* C10: in a returned rhythm map the duration is not negative and no
\* timestamp of a nested sequence exceeds it.
C10_TimestampsWithinDuration ==
    Returned =>
        /\ rhythm_map.duration >= 0
        /\ \A t \in AllTimestamps : t <= rhythm_map.duration

\* every nested sequence has a timestamp, and the last frame is a beat
C10_Witness ==
    /\ Returned
    /\ rhythm_map.beats # <<>>
    /\ rhythm_map.speech_segments # <<>>
    /\ rhythm_map.natural_breaks # <<>>
    /\ rhythm_map.emphasis_points # <<>>
    /\ rhythm_map.energy_profile # <<>>
    /\ Cuts # <<>>
    /\ rhythm_map.duration \in AllTimestamps

\* C11: when an analyzer reports a timestamp outside [0, duration], the call
\* fails instead of returning a rhythm map: once the beat tracker has
\* reported a beat that lies before 0 or after the duration, the call has
\* raised.
BeatOutsideDuration ==
    \E k \in 1..Len(beats) :
        FrameTime(beats[k]) < 0 \/ FrameTime(beats[k]) > Duration(y.len)

OrderedDisjoint(spans) ==
    \A k \in 1..(Len(spans) - 1) :
        /\ spans[k].start <= spans[k + 1].start
        /\ spans[k].end <= spans[k + 1].start

C12_SegmentsAndBreaksOrdered ==
    Returned =>
        /\ \A k \in 1..Len(rhythm_map.speech_segments) :
              /\ rhythm_map.speech_segments[k].start
                    < rhythm_map.speech_segments[k].end
              /\ rhythm_map.speech_segments[k].duration
                    = rhythm_map.speech_segments[k].end
                        - rhythm_map.speech_segments[k].start
        /\ OrderedDisjoint(rhythm_map.speech_segments)
        /\ OrderedDisjoint(rhythm_map.natural_breaks)

\* three speech segments, the last one ending on the last sample of a
\* signal whose length is a multiple of the hop, and two breaks
C12_Witness ==
    /\ Returned
    /\ Len(rhythm_map.speech_segments) = 3
    /\ rhythm_map.speech_segments[3].end = rhythm_map.duration
    /\ y.len % HopLength = 0
    /\ Len(rhythm_map.natural_breaks) = 2

\* C13: with no or one active interval of the break-candidate segmentation
\* the call returns and natural_breaks is empty; there are never more breaks
\* than intervals minus one, and every break lies between the end of the
\* first interval and the start of the last one, so the silence before the
\* first and after the last interval is never a break.
C13_BreaksOnlyBetweenIntervals ==
    Returned =>
        /\ Len(intervals) <= 1 => rhythm_map.natural_breaks = <<>>
        /\ \/ rhythm_map.natural_breaks = <<>>
           \/ Len(rhythm_map.natural_breaks) <= Len(intervals) - 1
        /\ \A k \in 1..Len(rhythm_map.natural_breaks) :
              /\ rhythm_map.natural_breaks[k].start >= 10 * intervals[1][2]
              /\ rhythm_map.natural_breaks[k].end
                    <= 10 * intervals[Len(intervals)][1]

\* one active interval with more than a second of silence on either side
C13_Witness ==
    /\ Returned
    /\ Len(intervals) = 1
    /\ 10 * intervals[1][1] > Seconds(10)
    /\ Duration(y.len) - 10 * intervals[1][2] > Seconds(10)
    /\ rhythm_map.natural_breaks = <<>>

\* C14: the analysis of a silent (all-zero) signal, whatever its length,
\* returns a rhythm map with no speech segments, no natural breaks and
\* tempo 0.
C14_SilentTrackHasNoSpeech ==
    (pc # "idle" /\ buffer = "valid" /\ IsSilent(y.rms)) =>
        /\ Returned
        /\ rhythm_map.speech_segments = <<>>
        /\ rhythm_map.natural_breaks = <<>>
        /\ rhythm_map.tempo = 0

\* C15: the timestamps of the emphasis points of a returned rhythm map are
\* strictly increasing, and two consecutive ones are at least 0.5 s apart.
C15_EmphasisHalfSecondApart ==
    Returned =>
        \A k \in 1..(Len(rhythm_map.emphasis_points) - 1) :
            /\ rhythm_map.emphasis_points[k].timestamp
                  < rhythm_map.emphasis_points[k + 1].timestamp
            /\ rhythm_map.emphasis_points[k + 1].timestamp
                  - rhythm_map.emphasis_points[k].timestamp >= Seconds(5)

\* C16: the beats of a returned rhythm map are as many as the frame indices
\* the beat tracker returned and in the same order, each one the time
\* frame * 512 / sample_rate of its frame index, and they are strictly
\* increasing.
C16_BeatsAreTheTrackedFrames ==
    Returned =>
        /\ Len(rhythm_map.beats) = Len(beats)
        /\ \A k \in 1..Len(beats) :
              rhythm_map.beats[k] = 10 * HopLength * beats[k]
        /\ \A k \in 1..(Len(rhythm_map.beats) - 1) :
              rhythm_map.beats[k] < rhythm_map.beats[k + 1]

\* MaxBeats beats, the first of them not at frame 0
C16_Witness ==
    /\ Returned
    /\ Len(beats) = MaxBeats
    /\ beats[1] > 0
    /\ Len(rhythm_map.beats) = MaxBeats

\* a decoded signal shorter than one analysis frame has been analysed
ShortBufferAnalysed ==
    pc # "idle" /\ buffer = "valid" /\ y.len < FrameLength

C18_InvalidBufferFailsFast ==
    (pc # "idle" /\ buffer \in {"empty", "nonfinite"}) =>
        /\ pc = "raised"
        /\ produced = {}
        /\ rhythm_map = NoMap

\* C19: every returned rhythm map has exactly the nine top-level fields
\* duration, tempo, beats, speech_segments, natural_breaks,
\* emphasis_points, spectral_features, energy_profile and
\* pacing_recommendations, whatever the input.
C19_ExactlyNineFields ==
    Returned =>
        DOMAIN rhythm_map =
            {"duration", "tempo", "beats", "speech_segments",
             "natural_breaks", "emphasis_points", "spectral_features",
             "energy_profile", "pacing_recommendations"}

\* the rhythm map of a silent buffer shorter than one frame: no beats, no
\* breaks, no emphasis points
C19_Witness ==
    /\ Returned
    /\ IsSilent(y.rms)
    /\ y.len < FrameLength
    /\ beats = <<>>
    /\ Cardinality(DOMAIN rhythm_map) = 9

\* a == b for two floats that are quotients: nan equals nothing, itself
\* included
FloatEq(a, b) == ~IsNaN(a) /\ ~IsNaN(b) /\ a.num * b.den = b.num * a.den

\* a == b for two rhythm maps: the same keys with equal values, lists equal
\* element by element
RhythmMapsEqual(a, b) ==
    /\ DOMAIN a = DOMAIN b
    /\ \A f \in DOMAIN a \ {"energy_profile"} : a[f] = b[f]
    /\ Len(a.energy_profile) = Len(b.energy_profile)
    /\ \A k \in 1..Len(a.energy_profile) :
         /\ a.energy_profile[k].timestamp = b.energy_profile[k].timestamp
         /\ FloatEq(a.energy_profile[k].energy, b.energy_profile[k].energy)
         /\ FloatEq(a.energy_profile[k].relative_energy,
                    b.energy_profile[k].relative_energy)

\* C20: the JSON document written from a returned rhythm map, parsed back,
\* is a value equal to the rhythm map, silent tracks included.
C20_JsonRoundTrip ==
    pc = "saved" => RhythmMapsEqual(JsonLoad(document), rhythm_map)

ToneAnalysed == pc # "idle" /\ buffer = "valid" /\ y = TenSecondTone

\* within a tenth of a second of t tenths of a second
Near(time, tenths) ==
    /\ time >= Seconds(tenths - 1)
    /\ time <= Seconds(tenths + 1)

OneSegmentFourToSix ==
    /\ Len(rhythm_map.speech_segments) = 1
    /\ Near(rhythm_map.speech_segments[1].start, 40)
    /\ Near(rhythm_map.speech_segments[1].end, 60)

\* C24 as stated: the analysis of the ten-second buffer with one tone from
\* 4 s to 6 s yields exactly one speech segment, about [4.0, 6.0], and a
\* natural break of kind "long" that covers the silence after the tone and
\* ends at the end of the buffer.
C24_ToneThenLongBreak ==
    ToneAnalysed =>
        /\ Returned
        /\ OneSegmentFourToSix
        /\ \E k \in 1..Len(rhythm_map.natural_breaks) :
              /\ rhythm_map.natural_breaks[k].type = "long"
              /\ rhythm_map.natural_breaks[k].start
                    >= rhythm_map.speech_segments[1].end
              /\ rhythm_map.natural_breaks[k].end = rhythm_map.duration

\* C24: the analysis of the ten-second buffer with one tone from 4 s to 6 s
\* yields exactly one speech segment, about [4.0, 6.0], and no natural
\* break.
C24_ToneWithoutBreak ==
    ToneAnalysed =>
        /\ Returned
        /\ OneSegmentFourToSix
        /\ rhythm_map.natural_breaks = <<>>

C24_Witness ==
    /\ ToneAnalysed
    /\ Returned
    /\ rhythm_map.duration = Seconds(100)
    /\ Len(intervals) = 1

\* C25: a call of a function wrapped by retry_with_backoff with
\* max_retries = n >= 1 invokes the function at most n times; only the
\* last invocation can have returned, and then the wrapper has returned its
\* value; when the wrapper has raised, all n invocations raised and the
\* exception is the one of the n-th; after the failed attempt k that is not
\* the last it has slept backoff_factor * 2^k, and it has not slept after
\* the last attempt.
Failed(k) == invocations[k] \in Exceptions

C25_RetryWithBackoff ==
    (wrapper # "idle" /\ max_retries >= 1) =>
        /\ Len(invocations) <= max_retries
        /\ \A k \in 1..(Len(invocations) - 1) : Failed(k)
        /\ wrapper = "returned" <=>
              (invocations # <<>> /\ ~Failed(Len(invocations)))
        /\ wrapper = "returned" => outcome = invocations[Len(invocations)]
        /\ wrapper = "raised" =>
              /\ Len(invocations) = max_retries
              /\ Failed(max_retries)
              /\ outcome = invocations[max_retries]
        /\ Len(slept) =
              Cardinality({k \in 1..Len(invocations) :
                              Failed(k) /\ k < max_retries})
        /\ \A k \in 1..Len(slept) : slept[k] = backoff_factor * 2^(k - 1)

\* four attempts that all failed, with different exceptions
C25_Witness ==
    /\ wrapper = "raised"
    /\ max_retries = 4
    /\ backoff_factor = 2
    /\ slept = <<2, 4, 8>>
    /\ invocations[1] # invocations[4]

\* C26: a wait that is over ended in one of three ways: it returned the
\* URL of the render, and then its last poll reported "succeeded"; it
\* raised because its last poll reported "failed", which every such poll
\* makes it do; or it raised TimeoutError, and then max_wait_time had
\* elapsed and its last poll reported neither.  A wait whose last poll was
\* a request error goes on unless the time is over, and no poll happens once
\* the time is over.
WaitOver(w) ==
    /\ w.ended \in {"returned", "Exception", "TimeoutError"}
    /\ w.ended = "returned" <=> w.last_poll = "succeeded"
    /\ w.ended = "returned" <=> w.url = UrlOf(w.render_id)
    /\ w.ended = "Exception" <=> w.last_poll = "failed"
    /\ w.ended = "TimeoutError" <=> w.timed_out
    /\ w.last_poll = "request_error" => w.ended = "TimeoutError"

C26_WaitEndsInOneOfThreeWays ==
    /\ \A k \in 1..Len(waits) : WaitOver(waits[k])
    /\ (assembling = "waiting" /\ elapsed < max_wait_time) =>
          last_poll \notin {"succeeded", "failed"}
    /\ (assembling # "waiting" /\ waits # <<>>) =>
          /\ last_poll = waits[Len(waits)].last_poll
          /\ waits[Len(waits)].timed_out => elapsed >= max_wait_time
    /\ assembling = "returned" =>
          /\ waits[Len(waits)].ended = "returned"
          /\ final = waits[Len(waits)].url

\* a wait that went on after a request error and then returned the URL,
\* after one that timed out and one that failed
C26_Witness ==
    /\ assembling = "returned"
    /\ Len(waits) = 3
    /\ waits[1].ended = "TimeoutError"
    /\ waits[1].last_poll = "request_error"
    /\ waits[2].ended = "Exception"
    /\ elapsed > ErrorSleep

\* C27: within one call of assemble_final_video the job that is polled is
\* the one the latest submission returned; at most 3 jobs are submitted and
\* at most 9 POST requests are sent; and the k-th wait polled the k-th job
\* submitted, a different job for every attempt.
C27_SubmitThenPollFreshJob ==
    /\ Len(submitted) <= 3
    /\ posts <= 9
    /\ Len(waits) <= Len(submitted)
    /\ assembling = "waiting" =>
          /\ Len(submitted) = Len(waits) + 1
          /\ render_id = submitted[Len(submitted)]
    /\ \A k \in 1..Len(waits) : waits[k].render_id = submitted[k]
    /\ \A j, k \in 1..Len(submitted) :
          j # k => submitted[j] # submitted[k]

\* the third job is polled after the ninth POST: every attempt needed all
\* its three submissions, and the first two renders failed or timed out
C27_Witness ==
    /\ assembling = "waiting"
    /\ outer = 2
    /\ posts = 9
    /\ Len(submitted) = 3
    /\ last_poll = "rendering"
    /\ waits[1].ended = "TimeoutError"
    /\ waits[2].ended = "Exception"

\* C28: upload_from_url never raises; when a step of the transfer failed
\* it has returned the original URL, otherwise the public URL of the
\* stored object; and the wrapper has invoked it once only.
C28_UploadFallsBackToUrl ==
    /\ storing # "raised"
    /\ calls <= 1
    /\ storing = "returned" =>
          /\ failed_at # "none" => stored_url = url
          /\ failed_at = "none" =>
                (stored_url = PublicUrl(remote_path) /\ blob = "public")

\* the upload failed after the download had written two chunks
C28_Witness ==
    /\ storing = "returned"
    /\ failed_at = "uploading"
    /\ temp_file = 2
    /\ stored_url = url

\* the scene keeps the description, script segment, visual type,
\* characters, mood and camera angle of the original scene
KeepsContent(scene, original) ==
    /\ scene.description = original.description
    /\ scene.script_segment = original.script_segment
    /\ scene.visual_type = original.visual_type
    /\ scene.characters = original.characters
    /\ scene.mood = original.mood
    /\ scene.camera_angle = original.camera_angle

\* until the call has returned the plan is the original one, whatever
\* attempts have failed
PlanUntouchedUntilReturned ==
    refining # "returned" => production_plan = original_plan

\* the plan has one scene per timing entry and the duration of the rhythm
\* map
OneScenePerEntry ==
    /\ Len(production_plan.scenes) = Len(updated_scenes_data)
    /\ production_plan.total_duration = rhythm_duration

\* C30 as stated: the plan is unchanged unless the call returned, and then
\* it has one scene per timing entry, each with the content of the
\* original scene at the same index, and the duration of the rhythm map.
C30_ContentOfSameIndex ==
    /\ PlanUntouchedUntilReturned
    /\ refining = "returned" =>
          /\ OneScenePerEntry
          /\ \A k \in 1..Len(production_plan.scenes) :
                /\ k <= Len(original_plan.scenes)
                /\ KeepsContent(production_plan.scenes[k],
                                original_plan.scenes[k])

\* C30: the plan is unchanged unless the call returned, and then it has
\* one scene per timing entry, each with the content of the original scene
\* at the same index, or of the first original scene when the plan had no
\* scene at that index, and the duration of the rhythm map.
C30_ContentOfSameIndexOrFirst ==
    /\ PlanUntouchedUntilReturned
    /\ refining = "returned" =>
          /\ OneScenePerEntry
          /\ \A k \in 1..Len(production_plan.scenes) :
                KeepsContent(production_plan.scenes[k],
                             IF k <= Len(original_plan.scenes)
                             THEN original_plan.scenes[k]
                             ELSE original_plan.scenes[1])

\* a plan of two scenes refined with three timing entries by the third
\* attempt, after a malformed entry and an unparsable response
C30_Witness ==
    /\ refining = "returned"
    /\ refine_attempt = 2
    /\ refine_error = "ValueError"
    /\ Len(original_plan.scenes) = 2
    /\ Len(production_plan.scenes) = 3
    /\ production_plan.scenes[3].description = <<"description", 1>>
    /\ production_plan.total_duration = 12

\* C23: create_rhythm_map is invoked once at most; when it has raised, the
\* exception has left create_video after that one invocation, and there is
\* no rhythm map and no rhythm-map file; and only the wrapped collaborators
\* are ever called a second time.
C23_AnalysisNeverRetried ==
    /\ analysis_attempts <= 1
    /\ (analysis_attempts = 1 /\ ~rhythm_map_made) =>
          /\ running = "raised"
          /\ failed_call = "create_rhythm_map"
          /\ rhythm_file = "none"
          /\ phases_returned = 1
    /\ rhythm_file = "written" => rhythm_map_made
    /\ (running = "phase" /\ call_attempt > 0) => Call \in Decorated
    /\ "create_rhythm_map" \notin Decorated

\* the analysis raised after the voiceover had been generated at the
\* third attempt and uploaded
C23_Witness ==
    /\ running = "raised"
    /\ failed_call = "create_rhythm_map"
    /\ analysis_attempts = 1
    /\ voiceover
    /\ <<2, "upload_file">> \in called
    /\ cast = 2

\* C29: the phases of create_video start in the order 1, 2, 3, 4, each
\* after the one before has returned; the rhythm analysis is called only
\* after the voiceover was generated and the refinement only after the
\* rhythm map exists; and when a phase has raised no later phase has
\* started and no project summary is returned, which is returned only after
\* all four phases.
C29_PhasesInOrder ==
    /\ \A k \in 1..Len(started) : started[k] = k
    /\ Len(started) <= phases_returned + 1
    /\ <<2, "create_rhythm_map">> \in called => voiceover
    /\ <<2, "refine_plan_with_audio_rhythm">> \in called => rhythm_map_made
    /\ running = "raised" =>
          /\ project_data = NoProjectData
          /\ failed_call # "none"
          /\ failed_call # "create_project_summary" =>
                /\ Len(started) = phases_returned + 1
                /\ \A call \in called : call[1] <= phases_returned + 1
    /\ running = "returned" =>
          /\ phases_returned = LastPhase
          /\ project_data # NoProjectData
    /\ running \notin {"returned"} => project_data = NoProjectData

\* the media generation raised after the first two phases had returned:
\* the assembly never started
C29_Witness ==
    /\ running = "raised"
    /\ phases_returned = 2
    /\ started = <<1, 2, 3>>
    /\ failed_call = "generate_talking_avatar"
    /\ rhythm_file = "written"

====
